---- MODULE Spec2Model ----
(***************************************************************************)
(* A model of the Kademlia node of lithp/kademlia: the identifier algebra  *)
(* and the k-bucket routing table of core.py, the datagram protocol        *)
(* (nonce-correlated requests and responses, the four verb handlers) and   *)
(* the iterative lookup of protocol.py, and the Node of kademlia.py        *)
(* (bootstrap, store_value, find_value).                                   *)
(*                                                                         *)
(* Identifiers are the integers of core.py (Node.nodeid and every method   *)
(* of RoutingTable are written over int node ids); on the wire they are    *)
(* big-endian strings (write_nodeid, read_nodeid).  protocol.py passes     *)
(* them wrapped in core.ID, which in this revision is a partial wrapper:   *)
(* ID.to_bytes reads "self.valueto_bytes(20, byteorder='big')" and the     *)
(* class defines no comparison or XOR, while the tests compare IDs by      *)
(* value.  The model takes an ID to be the integer it wraps, with the      *)
(* encoding to_bytes is written to produce (value.to_bytes(20, 'big')).    *)
(* The identifier width, 160 bits in the source, is the bound IdBits       *)
(* here, and a wire "byte" carries one bit.                                *)
(***************************************************************************)
EXTENDS Integers, Sequences, FiniteSets, TLC

VARIABLES
    table,        \* Server.table: the RoutingTable (k, nodeid, buckets)
    now,          \* the clock read by datetime.datetime.utcnow()
    transport,    \* Server.transport: "none" (None) or "open"
    node,         \* Server.node: <<>> (None) or <<Node>>
    outstanding,  \* Protocol.outstanding_requests: nonce -> future
    futures,      \* the futures created by Server.send, in creation order
    storage,      \* Protocol.storage: key -> value
    wire,         \* datagrams the node has sent that are still in flight
    lastOp,       \* the last call made on the node and what it returned or raised
    servers,      \* the Servers of a network: nodeid -> table, storage, in-flight map, transport
    co,           \* the coroutine a host has running on one Server (a lookup, bootstrap, ...)
    script        \* how the network was set up and the calls the hosts have made

vars == <<table, now, transport, node, outstanding, futures, storage, wire, lastOp,
          servers, co, script>>

\* the state of a network of Servers; one Server alone does not use it
netVars == <<servers, co, script>>

protoVars == <<transport, node, outstanding, futures, storage, wire>>

----------------------------------------------------------------------------
(* Bounds of the model *)

\* width of an identifier in bits (160 in core.py)
IdBits == 4

\* RoutingTable.k, the bucket capacity given to the constructor
K == 2

----------------------------------------------------------------------------
(* core.py: identifiers *)

Ids == 0 .. (2^IdBits - 1)

\* Python's None for an optional argument; Some(x) is a given argument
None == <<>>

Some(x) == <<x>>

RECURSIVE int_xor(_, _)
\* left ^ right on non-negative integers
int_xor(left, right) ==
    IF left = 0 THEN right
    ELSE IF right = 0 THEN left
    ELSE (((left % 2) + (right % 2)) % 2) + (2 * int_xor(left \div 2, right \div 2))

node_distance(left, right) == int_xor(left, right)

RECURSIVE bit_length(_)
\* int.bit_length()
bit_length(x) == IF x = 0 THEN 0 ELSE 1 + bit_length(x \div 2)

\* core.Node
Node(addr, port, nodeid) == [addr |-> addr, port |-> port, nodeid |-> nodeid]

\* core.RoutingEntry
RoutingEntry(n, last_seen) == [node |-> n, last_seen |-> last_seen]

----------------------------------------------------------------------------
(* core.py: RoutingTable *)

BucketIndexes == 0 .. (IdBits - 1)

\* RoutingTable.__init__: buckets is a defaultdict of OrderedDicts, every
\* bucket empty until written.  A bucket is the sequence of its entries in
\* the OrderedDict's order.  Index -1 is the slot the defaultdict would
\* create for a distance of zero; the asserts keep it from being touched.
RoutingTableInit(k, mynodeid) ==
    [k |-> k, nodeid |-> mynodeid, buckets |-> [i \in BucketIndexes |-> <<>>]]

\* the asserts of RoutingTable._bucket_index_for
bucket_index_asserts(tbl, nodeid) ==
    /\ tbl.nodeid # nodeid
    /\ nodeid >= 0
    /\ nodeid <= 2^IdBits - 1
    /\ bit_length(node_distance(tbl.nodeid, nodeid)) - 1 >= 0
    /\ bit_length(node_distance(tbl.nodeid, nodeid)) - 1 < IdBits

\* a variant of _bucket_index_for that counts the index from the top bit down
bucket_index_from_top(tbl, nodeid) ==
    IdBits - bit_length(node_distance(tbl.nodeid, nodeid))

\* RoutingTable._bucket_index_for, where its asserts hold
bucket_index_for(tbl, nodeid) ==
    bit_length(node_distance(tbl.nodeid, nodeid)) - 1

\* the node ids that are keys of a bucket
BucketKeys(bucket) == {bucket[j].node.nodeid : j \in 1 .. Len(bucket)}

\* the position of a key in a bucket
KeyPos(bucket, nodeid) ==
    CHOOSE j \in 1 .. Len(bucket) : bucket[j].node.nodeid = nodeid

\* a sequence without its j-th element
RemoveAt(s, j) == SubSeq(s, 1, j - 1) \o SubSeq(s, j + 1, Len(s))

\* a variant that peeks at the other end of the OrderedDict
last_element_of_ordered_dict(bucket) == bucket[Len(bucket)]

\* RoutingTable._first_element_of_ordered_dict
first_element_of_ordered_dict(bucket) == bucket[1]

\* a variant of the not-full test that lets a full bucket take one more
has_room_inclusive(tbl, bucket) == Len(bucket) <= tbl.k

\* the not-full test of RoutingTable.node_seen
has_room(tbl, bucket) == Len(bucket) < tbl.k

\* a variant of node_seen that refreshes last_seen where the entry stands
node_seen_in_place(tbl, n, t) ==
    IF ~ bucket_index_asserts(tbl, n.nodeid)
    THEN [table |-> tbl, raised |-> "AssertionError"]
    ELSE LET i == bucket_index_for(tbl, n.nodeid)
             bucket == tbl.buckets[i]
         IN  IF n.nodeid \in BucketKeys(bucket)
             THEN LET j == KeyPos(bucket, n.nodeid)
                  IN  [table |-> [tbl EXCEPT !.buckets[i][j].last_seen = t],
                       raised |-> "none"]
             ELSE IF has_room(tbl, bucket)
             THEN [table |-> [tbl EXCEPT !.buckets[i] =
                                  Append(bucket, RoutingEntry(n, t))],
                   raised |-> "none"]
             ELSE [table |-> tbl,
                   raised |-> "NoRoomInBucket",
                   entry |-> first_element_of_ordered_dict(bucket)]

\* RoutingTable.node_seen(node) at time t: the table afterwards and what was
\* raised ("none" when the call returns)
node_seen(tbl, n, t) ==
    IF ~ bucket_index_asserts(tbl, n.nodeid)
    THEN [table |-> tbl, raised |-> "AssertionError"]
    ELSE LET i == bucket_index_for(tbl, n.nodeid)
             bucket == tbl.buckets[i]
         IN  IF n.nodeid \in BucketKeys(bucket)
             THEN \* update_last_seen keeps the stored descriptor; move_to_end
                  LET j == KeyPos(bucket, n.nodeid)
                      bumped == RoutingEntry(bucket[j].node, t)
                  IN  [table |-> [tbl EXCEPT !.buckets[i] =
                                      Append(RemoveAt(bucket, j), bumped)],
                       raised |-> "none"]
             ELSE IF has_room(tbl, bucket)
             THEN [table |-> [tbl EXCEPT !.buckets[i] =
                                  Append(bucket, RoutingEntry(n, t))],
                   raised |-> "none"]
             ELSE [table |-> tbl,
                   raised |-> "NoRoomInBucket",
                   entry |-> first_element_of_ordered_dict(bucket)]

\* a variant of evict_node that removes the oldest entry of the bucket
evict_node_oldest(tbl, nodeid) ==
    IF ~ bucket_index_asserts(tbl, nodeid)
    THEN [table |-> tbl, raised |-> "AssertionError"]
    ELSE LET i == bucket_index_for(tbl, nodeid)
             bucket == tbl.buckets[i]
         IN  IF nodeid \in BucketKeys(bucket)
             THEN [table |-> [tbl EXCEPT !.buckets[i] = Tail(bucket)],
                   raised |-> "none"]
             ELSE [table |-> tbl, raised |-> "KeyError"]

\* RoutingTable.evict_node(nodeid)
evict_node(tbl, nodeid) ==
    IF ~ bucket_index_asserts(tbl, nodeid)
    THEN [table |-> tbl, raised |-> "AssertionError"]
    ELSE LET i == bucket_index_for(tbl, nodeid)
             bucket == tbl.buckets[i]
         IN  IF nodeid \in BucketKeys(bucket)
             THEN [table |-> [tbl EXCEPT !.buckets[i] =
                                  RemoveAt(bucket, KeyPos(bucket, nodeid))],
                   raised |-> "none"]
             ELSE [table |-> tbl, raised |-> "KeyError"]

RECURSIVE centered_from(_, _, _)
\* the while loop of RoutingTable._i_centered_indexes from a given width
centered_from(i, length, width) ==
    LET lower == IF (i - width) >= 0 THEN <<i - width>> ELSE <<>>
        upper == IF (i + width) < length THEN <<i + width>> ELSE <<>>
        to_return == lower \o upper
    IN  IF Len(to_return) > 0
        THEN <<to_return>> \o centered_from(i, length, width + 1)
        ELSE <<>>

\* RoutingTable._i_centered_indexes: the tuples it yields, in order
i_centered_indexes(i, length) == <<(<<i>>)>> \o centered_from(i, length, 1)

RECURSIVE insert_by_distance(_, _, _)
\* n put into a sequence sorted by distance to target, after its equals
insert_by_distance(sorted, n, target) ==
    IF sorted = <<>> THEN <<n>>
    ELSE IF node_distance(target, n.nodeid) < node_distance(target, Head(sorted).nodeid)
         THEN <<n>> \o sorted
         ELSE <<Head(sorted)>> \o insert_by_distance(Tail(sorted), n, target)

RECURSIVE sort_nodes(_, _)
\* sorted(nodes, key=dist_from_target): a stable sort
sort_nodes(nodes, target) ==
    IF nodes = <<>> THEN <<>>
    ELSE insert_by_distance(sort_nodes(SubSeq(nodes, 1, Len(nodes) - 1), target),
                            nodes[Len(nodes)], target)

\* bucket_contents of RoutingTable._closest_nodes
bucket_contents(tbl, index) ==
    [j \in 1 .. Len(tbl.buckets[index]) |-> tbl.buckets[index][j].node]

RECURSIVE merge_buckets(_, _)
\* itertools.chain.from_iterable over the buckets of one index list
merge_buckets(tbl, bucket_index_list) ==
    IF bucket_index_list = <<>> THEN <<>>
    ELSE bucket_contents(tbl, Head(bucket_index_list))
         \o merge_buckets(tbl, Tail(bucket_index_list))

RECURSIVE sorted_nodes(_, _, _)
\* the chain of the sorted merged buckets, one index list after the other
sorted_nodes(tbl, target, bucket_iterator) ==
    IF bucket_iterator = <<>> THEN <<>>
    ELSE sort_nodes(merge_buckets(tbl, Head(bucket_iterator)), target)
         \o sorted_nodes(tbl, target, Tail(bucket_iterator))

\* a variant of islice that stops one element late
islice_one_more(s, n) == SubSeq(s, 1, IF n + 1 < Len(s) THEN n + 1 ELSE Len(s))

\* itertools.islice(s, n)
islice(s, n) == SubSeq(s, 1, IF n < Len(s) THEN n ELSE Len(s))

\* RoutingTable._closest_nodes
closest_nodes(tbl, target, n, bucket_iterator) ==
    islice(sorted_nodes(tbl, target, bucket_iterator), n)

\* RoutingTable.closest_to_me; n is None or Some(number)
closest_to_me(tbl, n) ==
    LET nn == IF n = None THEN tbl.k ELSE n[1]
        buckets_to_check == [i \in 1 .. IdBits |-> <<i - 1>>]
    IN  closest_nodes(tbl, tbl.nodeid, nn, buckets_to_check)

\* RoutingTable.closest for a target in the id space; n is None or Some(number)
closest(tbl, target, n) ==
    IF target = tbl.nodeid
    THEN closest_to_me(tbl, n)
    ELSE LET bucket_index == bucket_index_for(tbl, target)
             nn == IF n = None THEN tbl.k ELSE n[1]
             bucket_indexes == i_centered_indexes(bucket_index, IdBits)
         IN  closest_nodes(tbl, target, nn, bucket_indexes)

----------------------------------------------------------------------------
(* protocol.py: messages *)

\* the nonces newnonce() can draw (20 random bytes in the source)
NumNonces == 2

Nonces == 1 .. NumNonces

RECURSIVE to_bytes(_, _)
\* int.to_bytes(length, byteorder='big'), one bit to the byte
to_bytes(value, length) ==
    IF length = 0 THEN <<>>
    ELSE Append(to_bytes(value \div 2, length - 1), value % 2)

RECURSIVE from_bytes(_)
\* int.from_bytes(as_bytes, byteorder='big')
from_bytes(as_bytes) ==
    IF as_bytes = <<>> THEN 0
    ELSE (2 * from_bytes(SubSeq(as_bytes, 1, Len(as_bytes) - 1)))
         + as_bytes[Len(as_bytes)]

\* protocol.write_nodeid: core.ID.to_bytes, taken as value.to_bytes(20, 'big')
write_nodeid(nodeid) == to_bytes(nodeid, IdBits)

\* protocol.read_nodeid: core.ID.from_bytes, the ID taken as its value
read_nodeid(asbytes) == from_bytes(asbytes)

\* the NodeProto of a core.Node, as create_message and find_node_response fill it
NodeProto(n) == [ip |-> n.addr, port |-> n.port, nodeid |-> write_nodeid(n.nodeid)]

\* protocol.read_node
read_node(n) == Node(n.ip, n.port, read_nodeid(n.nodeid))

\* protocol.create_message with the nonce newnonce() drew; no variant is set
\* yet, and unset fields hold protobuf's defaults
create_message(n, nonce) ==
    [sender |-> NodeProto(n), nonce |-> nonce, kind |-> "none",
     key |-> <<>>, value |-> "", neighbors |-> <<>>]

\* a variant of create_response that keeps the nonce create_message drew
create_response_own_nonce(n, request_nonce) ==
    create_message(n, (request_nonce % NumNonces) + 1)

\* protocol.create_response
create_response(n, request_nonce) ==
    [create_message(n, request_nonce) EXCEPT !.nonce = request_nonce]

\* protocol.create_ping
create_ping(n, nonce) == [create_message(n, nonce) EXCEPT !.kind = "ping"]

\* protocol.create_pong
create_pong(n, nonce) == [create_response(n, nonce) EXCEPT !.kind = "pong"]

\* protocol.create_store
create_store(n, nonce, key, value) ==
    [create_message(n, nonce) EXCEPT
        !.kind = "store", !.key = write_nodeid(key), !.value = value]

\* protocol.create_store_response
create_store_response(n, nonce) ==
    [create_response(n, nonce) EXCEPT !.kind = "storeResponse"]

\* protocol.create_find_node
create_find_node(n, nonce, targetnodeid) ==
    [create_message(n, nonce) EXCEPT
        !.kind = "findNode", !.key = write_nodeid(targetnodeid)]

\* protocol.create_find_value
create_find_value(n, nonce, key) ==
    [create_message(n, nonce) EXCEPT
        !.kind = "findValue", !.key = write_nodeid(key)]

\* protocol.create_found_value
create_found_value(n, nonce, key, value) ==
    [create_response(n, nonce) EXCEPT
        !.kind = "foundValue", !.key = write_nodeid(key), !.value = value]

\* MessageBuilder.find_node_response
find_node_response(n, nonce, nodes) ==
    [create_response(n, nonce) EXCEPT
        !.kind = "findNodeResponse",
        !.neighbors = [j \in 1 .. Len(nodes) |-> NodeProto(nodes[j])]]

\* protocol.isresponse
isresponse(message) ==
    message.kind \in {"pong", "storeResponse", "findNodeResponse", "foundValue"}

\* message.SerializeToString(): the frame that carries the message
SerializeToString(message) == [malformed |-> FALSE, message |-> message]

\* the bytes ParseFromString raises DecodeError on
Malformed == [malformed |-> TRUE]

----------------------------------------------------------------------------
(* protocol.py: Protocol *)

\* a variant of respond that sends the response as a PING
respond_with_request(request, response) ==
    [dest |-> <<request.sender.ip, request.sender.port>>,
     data |-> SerializeToString([response EXCEPT !.kind = "ping"])]

\* Protocol._respond: the datagram handed to transport.sendto
respond(request, response) ==
    [dest |-> <<request.sender.ip, request.sender.port>>,
     data |-> SerializeToString(response)]

\* Protocol.ping_received: the datagrams it sends
ping_received(self, message) ==
    <<respond(message, create_pong(self, message.nonce))>>

\* a variant of store_received that keeps the value a key already has
store_received_keep_first(stor, message) ==
    LET key == read_nodeid(message.key)
    IN  [k \in (DOMAIN stor) \cup {key} |->
            IF k \in DOMAIN stor THEN stor[k] ELSE message.value]

\* Protocol.store_received: the storage afterwards
store_received_storage(stor, message) ==
    LET key == read_nodeid(message.key)
    IN  [k \in (DOMAIN stor) \cup {key} |->
            IF k = key THEN message.value ELSE stor[k]]

\* Protocol.store_received: the datagrams it sends
store_received(self, message) ==
    <<respond(message, create_store_response(self, message.nonce))>>

\* Protocol.find_node_received: the datagrams it sends
find_node_received(self, tbl, request) ==
    LET targetnodeid == read_nodeid(request.key)
        nodes == closest(tbl, targetnodeid, None)
    IN  <<respond(request, find_node_response(self, request.nonce, nodes))>>

\* a variant of find_value_received that names no neighbors when it has no value
find_value_received_no_neighbors(self, tbl, stor, request) ==
    LET targetkey == read_nodeid(request.key)
    IN  IF targetkey \in DOMAIN stor
        THEN <<respond(request,
                       create_found_value(self, request.nonce, targetkey,
                                          stor[targetkey]))>>
        ELSE <<respond(request, find_node_response(self, request.nonce, <<>>))>>

\* a variant of find_value_received that never looks into the value store
find_value_received_not_stored(self, tbl, stor, request) ==
    find_node_received(self, tbl, request)

\* Protocol.find_value_received: the datagrams it sends
find_value_received(self, tbl, stor, request) ==
    LET targetkey == read_nodeid(request.key)
    IN  IF targetkey \in DOMAIN stor
        THEN <<respond(request,
                       create_found_value(self, request.nonce, targetkey,
                                          stor[targetkey]))>>
        ELSE find_node_received(self, tbl, request)

\* future.set_result(message) on a future that is pending
set_result(futs, f, message) ==
    [futs EXCEPT ![f].state = "done", ![f].result = Some(message)]

\* a variant of pop that leaves the entry in the map
pop_nothing(outs, nonce) == outs

\* outstanding_requests.pop(nonce): the map afterwards
pop(outs, nonce) == [n \in (DOMAIN outs) \ {nonce} |-> outs[n]]

\* a variant of the response branch that completes whatever request is
\* outstanding, whichever nonce the response carries
response_received_any_nonce(outs, futs, message) ==
    IF DOMAIN outs = {}
    THEN [outstanding |-> outs, futures |-> futs, raised |-> "none"]
    ELSE LET nonce == CHOOSE n \in DOMAIN outs : TRUE
         IN  [outstanding |-> pop(outs, nonce),
              futures |-> set_result(futs, outs[nonce], message),
              raised |-> "none"]

\* the response branch of Protocol.datagram_received; set_result raises
\* InvalidStateError on a future that is not pending any more (one that
\* was cancelled), after the nonce has been popped
response_received(outs, futs, message) ==
    IF message.nonce \notin DOMAIN outs
    THEN [outstanding |-> outs, futures |-> futs, raised |-> "none"]
    ELSE IF futs[outs[message.nonce]].state # "pending"
    THEN [outstanding |-> pop(outs, message.nonce), futures |-> futs,
          raised |-> "InvalidStateError"]
    ELSE [outstanding |-> pop(outs, message.nonce),
          futures |-> set_result(futs, outs[message.nonce], message),
          raised |-> "none"]

\* the self test of Protocol.datagram_received
from_ourselves(self, remote) == remote.nodeid = self.nodeid

\* a variant of datagram_received that does not pass over NoRoomInBucket
datagram_received_no_room_raised(self, tbl, outs, futs, stor, data, t) ==
    LET unchanged == [table |-> tbl, outstanding |-> outs, futures |-> futs,
                      storage |-> stor, sent |-> <<>>, raised |-> "none"]
    IN  IF data.malformed
        THEN unchanged
        ELSE
        LET message == data.message
            remote == read_node(message.sender)
        IN  IF from_ourselves(self, remote)
            THEN [unchanged EXCEPT !.raised = "AssertionError"]
            ELSE
            LET seen == [unchanged EXCEPT !.table = node_seen(tbl, remote, t).table,
                                          !.raised = node_seen(tbl, remote, t).raised]
            IN  IF isresponse(message)
                THEN LET r == response_received(outs, futs, message)
                     IN  [seen EXCEPT !.outstanding = r.outstanding,
                                      !.futures = r.futures,
                                      !.raised = r.raised]
                ELSE IF message.kind = "findNode"
                THEN [seen EXCEPT !.sent = find_node_received(self, seen.table, message)]
                ELSE IF message.kind = "ping"
                THEN [seen EXCEPT !.sent = ping_received(self, message)]
                ELSE IF message.kind = "store"
                THEN [seen EXCEPT !.storage = store_received_storage(stor, message),
                                  !.sent = store_received(self, message)]
                ELSE IF message.kind = "findValue"
                THEN [seen EXCEPT !.sent = find_value_received(self, seen.table,
                                                               stor, message)]
                ELSE [seen EXCEPT !.raised = "AssertionError"]

\* a variant of datagram_received that answers FIND_NODE from the table as it
\* was before the sender was seen
datagram_received_reply_first(self, tbl, outs, futs, stor, data, t) ==
    LET unchanged == [table |-> tbl, outstanding |-> outs, futures |-> futs,
                      storage |-> stor, sent |-> <<>>, raised |-> "none"]
    IN  IF data.malformed
        THEN unchanged
        ELSE
        LET message == data.message
            remote == read_node(message.sender)
        IN  IF from_ourselves(self, remote)
            THEN [unchanged EXCEPT !.raised = "AssertionError"]
            ELSE
            \* NoRoomInBucket is caught and passed over
            LET seen == [unchanged EXCEPT !.table = node_seen(tbl, remote, t).table]
            IN  IF isresponse(message)
                THEN LET r == response_received(outs, futs, message)
                     IN  [seen EXCEPT !.outstanding = r.outstanding,
                                      !.futures = r.futures,
                                      !.raised = r.raised]
                ELSE IF message.kind = "findNode"
                THEN [seen EXCEPT !.sent = find_node_received(self, tbl, message)]
                ELSE IF message.kind = "ping"
                THEN [seen EXCEPT !.sent = ping_received(self, message)]
                ELSE IF message.kind = "store"
                THEN [seen EXCEPT !.storage = store_received_storage(stor, message),
                                  !.sent = store_received(self, message)]
                ELSE IF message.kind = "findValue"
                THEN [seen EXCEPT !.sent = find_value_received(self, seen.table,
                                                               stor, message)]
                ELSE [seen EXCEPT !.raised = "AssertionError"]

\* Protocol.datagram_received(data, addr) of the protocol of node self at
\* time t: the routing table, in-flight map, futures and storage afterwards,
\* the datagrams sent and what was raised
datagram_received(self, tbl, outs, futs, stor, data, t) ==
    LET unchanged == [table |-> tbl, outstanding |-> outs, futures |-> futs,
                      storage |-> stor, sent |-> <<>>, raised |-> "none"]
    IN  IF data.malformed
        THEN unchanged
        ELSE
        LET message == data.message
            remote == read_node(message.sender)
        IN  IF from_ourselves(self, remote)
            THEN [unchanged EXCEPT !.raised = "AssertionError"]
            ELSE
            \* NoRoomInBucket is caught and passed over
            LET seen == [unchanged EXCEPT !.table = node_seen(tbl, remote, t).table]
            IN  IF isresponse(message)
                THEN LET r == response_received(outs, futs, message)
                     IN  [seen EXCEPT !.outstanding = r.outstanding,
                                      !.futures = r.futures,
                                      !.raised = r.raised]
                ELSE IF message.kind = "findNode"
                THEN [seen EXCEPT !.sent = find_node_received(self, seen.table, message)]
                ELSE IF message.kind = "ping"
                THEN [seen EXCEPT !.sent = ping_received(self, message)]
                ELSE IF message.kind = "store"
                THEN [seen EXCEPT !.storage = store_received_storage(stor, message),
                                  !.sent = store_received(self, message)]
                ELSE IF message.kind = "findValue"
                THEN [seen EXCEPT !.sent = find_value_received(self, seen.table,
                                                               stor, message)]
                ELSE [seen EXCEPT !.raised = "AssertionError"]

----------------------------------------------------------------------------
(* protocol.py: Server *)

\* loop.create_future() for a request: its message and destination are kept
\* with it for the caller that awaits it
create_future(message, remote) ==
    [request |-> message, remote |-> remote, state |-> "pending", result |-> None]

\* a variant of send that lets a message go to the node itself
send_to_ourself(trans, self, outs, futs, message, remote) ==
    LET refused == [outstanding |-> outs, futures |-> futs, sent |-> <<>>]
    IN  IF trans # "open"
        THEN refused @@ [raised |-> "Exception"]
        ELSE IF message.nonce \in DOMAIN outs
        THEN refused @@ [raised |-> "AssertionError"]
        ELSE [outstanding |-> outs @@ (message.nonce :> (Len(futs) + 1)),
              futures |-> Append(futs, create_future(message, remote)),
              sent |-> << [dest |-> <<remote.addr, remote.port>>,
                           data |-> SerializeToString(message)] >>,
              raised |-> "none"]

\* Server.send(message, remote): the in-flight map and futures afterwards, the
\* datagrams sent and what was raised
send(trans, self, outs, futs, message, remote) ==
    LET refused == [outstanding |-> outs, futures |-> futs, sent |-> <<>>]
    IN  IF trans # "open"
        THEN refused @@ [raised |-> "Exception"]
        ELSE IF Some(remote) = self
        THEN refused @@ [raised |-> "Exception"]
        ELSE IF message.nonce \in DOMAIN outs
        THEN \* the assert of Protocol.register_nonce
             refused @@ [raised |-> "AssertionError"]
        ELSE [outstanding |-> outs @@ (message.nonce :> (Len(futs) + 1)),
              futures |-> Append(futs, create_future(message, remote)),
              sent |-> << [dest |-> <<remote.addr, remote.port>>,
                           data |-> SerializeToString(message)] >>,
              raised |-> "none"]

----------------------------------------------------------------------------
(* The routing table driven directly by its host: node_seen, evict_node and *)
(* closest called in any order on a table of capacity K.                   *)

\* the highest bit of the id space: 0b1000 when ids have four bits
HighBit == 2^(IdBits - 1)

\* the table's own id: 0b1000 as in test_core.py, or 0b1100
TableOwnIds == {HighBit, HighBit + 4}

\* the ids the host reports peers with: 0b0000, 0b1000, 0b1001, 0b1010,
\* 0b1100, 0b1101, 0b1110.  A table with own id 0b1000 gets one candidate
\* for bucket 0, one for bucket 1, three for bucket 2 and one for the last
\* bucket; its own id is a candidate too
TablePeerIds == {0} \cup {HighBit + d : d \in {0, 1, 2, 4, 5, 6}}

\* the targets closest is asked for: every candidate and an id no peer has
ClosestTargets == TablePeerIds \cup {HighBit + 7}

Port(nodeid) == 3000 + nodeid

\* the descriptors node_seen is called with; one peer id is also reported
\* from a second port
TableNodes ==
    {Node("localhost", Port(i), i) : i \in TablePeerIds}
        \cup {Node("localhost", 1, HighBit + 5)}

\* the n of closest(target, n): omitted, or a number up to K + 1
ClosestNs == {None} \cup {Some(i) : i \in 0 .. (K + 1)}

\* core.bucket_ranges
bucket_ranges(bucket_index) == <<2^bucket_index, 2^(bucket_index + 1) - 1>>

\* the values random.randrange(start, stop) draws from; it raises ValueError
\* when there is none
randrange(start, stop) == start .. (stop - 1)

\* core.random_key_in_bucket: the keys it can return
random_key_in_bucket(myid, bucket_index) ==
    {int_xor(myid, distance) :
        distance \in randrange(bucket_ranges(bucket_index)[1],
                               bucket_ranges(bucket_index)[2])}

\* the n the host calls closest with
CalledNs == {None, Some(1), Some(K + 1)}

TableInit ==
    /\ table \in {RoutingTableInit(K, i) : i \in TableOwnIds}
    /\ now = 0
    /\ transport = "none"
    /\ node = None
    /\ outstanding = <<>>
    /\ futures = <<>>
    /\ storage = <<>>
    /\ wire = {}
    /\ lastOp = [op |-> "init"]
    /\ servers = <<>>
    /\ co = <<>>
    /\ script = <<>>

\* the host calls table.node_seen(n)
NodeSeen(n) ==
    /\ \E r \in {node_seen(table, n, now)} :
           /\ table' = r.table
           /\ lastOp' = [op |-> "node_seen", node |-> n, raised |-> r.raised,
                         entry |-> IF r.raised = "NoRoomInBucket"
                                   THEN Some(r.entry) ELSE None]
    /\ UNCHANGED <<now, protoVars, netVars>>

\* the host calls table.evict_node(nodeid)
EvictNode(nodeid) ==
    /\ \E r \in {evict_node(table, nodeid)} :
           /\ table' = r.table
           /\ lastOp' = [op |-> "evict_node", nodeid |-> nodeid, raised |-> r.raised]
    /\ UNCHANGED <<now, protoVars, netVars>>

\* the host calls table.closest(target, n)
Closest(target, n) ==
    /\ lastOp' = [op |-> "closest", target |-> target, n |-> n,
                  result |-> closest(table, target, n)]
    /\ UNCHANGED <<table, now, protoVars, netVars>>

\* the host calls core.random_key_in_bucket(table.nodeid, bucket_index);
\* draws are the keys this call can return, result the one it returns
RandomKeyInBucket(bucket_index) ==
    /\ \E draws \in {random_key_in_bucket(table.nodeid, bucket_index)} :
           IF draws = {}
           THEN lastOp' = [op |-> "random_key_in_bucket", myid |-> table.nodeid,
                           bucket_index |-> bucket_index, draws |-> draws,
                           raised |-> "ValueError", result |-> None]
           ELSE \E key \in draws :
                   lastOp' = [op |-> "random_key_in_bucket", myid |-> table.nodeid,
                              bucket_index |-> bucket_index, draws |-> draws,
                              raised |-> "none", result |-> Some(key)]
    /\ UNCHANGED <<table, now, protoVars, netVars>>

TableNext ==
    \/ \E n \in TableNodes : NodeSeen(n)
    \/ \E i \in TablePeerIds : EvictNode(i)
    \/ \E t \in ClosestTargets, n \in CalledNs : Closest(t, n)
    \/ \E i \in BucketIndexes : RandomKeyInBucket(i)

TableSpec == TableInit /\ [][TableNext]_vars

\* the latest time datetime.utcnow() gives before the run ends
MaxNow == 2

\* time passes between two calls of the host
Tick ==
    /\ now < MaxNow
    /\ now' = now + 1
    /\ lastOp' = [op |-> "tick"]
    /\ UNCHANGED <<table, protoVars, netVars>>

ClockNext ==
    \/ \E n \in TableNodes : NodeSeen(n)
    \/ Tick

\* the routing table driven by its host while time passes
ClockSpec == TableInit /\ [][ClockNext]_vars

----------------------------------------------------------------------------
(* One Server on the network: its host starts and stops it and sends PINGs, *)
(* and any frame may arrive at its socket.                                  *)

\* the requests the host may send before the run ends
MaxSends == 2

\* Server.nodeid: 0b1000, as in test_protocol.py
OwnId == HighBit

\* the port the host listens on
LocalPort == 3000

\* three peers of one bucket: PeerA answers what it is sent, PeerC never does
PeerA == Node("localhost", Port(HighBit + 4), HighBit + 4)

PeerB == Node("localhost", Port(HighBit + 5), HighBit + 5)

PeerC == Node("localhost", Port(HighBit + 6), HighBit + 6)

\* a sender that claims the node's own id from another port
Reflected == Node("localhost", 3009, OwnId)

\* the key of test_protocol.py, 0b100, and the values stored under it
Keys == {4}

Values == {"abc", "xyz"}

\* the frames a peer can send as requests
RequestFrames(n) ==
    {SerializeToString(m) : m \in
        UNION {{create_ping(n, nonce), create_find_node(n, nonce, OwnId)}
               \cup {create_find_node(n, nonce, key) : key \in Keys}
               \cup {create_find_value(n, nonce, key) : key \in Keys}
               \cup {create_store(n, nonce, key, v) : key \in Keys, v \in Values}
               : nonce \in Nonces}}

\* the frames a peer can send as responses
ResponseFrames(n) ==
    {SerializeToString(m) : m \in
        UNION {{create_pong(n, nonce), create_found_value(n, nonce, 4, "abc")}
               : nonce \in Nonces}}

\* the datagrams that arrive at the socket of a node that sends requests:
\* responses of PeerA under every nonce, a PONG and a PING of PeerB, a PING
\* of PeerA, a PONG claiming the own id, and bytes that do not decode
EnvFrames ==
    ResponseFrames(PeerA)
        \cup {SerializeToString(create_pong(PeerB, 1)),
              SerializeToString(create_ping(PeerB, 1)),
              SerializeToString(create_ping(PeerA, 1)),
              SerializeToString(create_pong(Reflected, 1)),
              Malformed}

\* the datagrams that arrive at the socket of a node that serves requests:
\* the requests of PeerA and PeerB, a PONG nobody waits for, a PING claiming
\* the own id, a frame with no variant set, and bytes that do not decode
ServerFrames ==
    RequestFrames(PeerA) \cup RequestFrames(PeerB)
        \cup {SerializeToString(create_pong(PeerA, 1)),
              SerializeToString(create_ping(Reflected, 1)),
              SerializeToString(create_message(PeerA, 1)),
              Malformed}

\* the table the host has filled through table.node_seen before listening,
\* as the tests do: nothing, or PeerB and PeerC
SeededTables ==
    {RoutingTableInit(K, OwnId),
     node_seen(node_seen(RoutingTableInit(K, OwnId), PeerB, 0).table, PeerC, 0).table}

Init ==
    /\ table \in SeededTables
    /\ now = 0
    /\ transport = "none"
    /\ node = None
    /\ outstanding = <<>>
    /\ futures = <<>>
    /\ storage = <<>>
    /\ wire = {}
    /\ lastOp = [op |-> "init"]
    /\ servers = <<>>
    /\ co = <<>>
    /\ script = <<>>

\* Server.listen(port), called once by the host: it creates the Protocol
Listen(port) ==
    /\ node = None
    /\ node' = Some(Node("localhost", port, table.nodeid))
    /\ transport' = "open"
    /\ outstanding' = <<>>
    /\ storage' = <<>>
    /\ lastOp' = [op |-> "listen"]
    /\ UNCHANGED <<table, now, futures, wire, netVars>>

\* Server.stop()
Stop ==
    /\ transport' = "none"
    /\ lastOp' = [op |-> "stop"]
    /\ UNCHANGED <<table, now, node, outstanding, futures, storage, wire, netVars>>

\* Server.ping(remote) up to its await; nonce is what newnonce() draws
Ping(remote, nonce) ==
    /\ Len(futures) < MaxSends
    /\ IF transport # "open"
       THEN /\ lastOp' = [op |-> "ping", remote |-> remote, raised |-> "Exception",
                          sent |-> <<>>]
            /\ UNCHANGED <<outstanding, futures, wire>>
       ELSE \E r \in {send(transport, node, outstanding, futures,
                            create_ping(node[1], nonce), remote)} :
                /\ outstanding' = r.outstanding
                /\ futures' = r.futures
                /\ wire' = wire \cup {r.sent[j] : j \in 1 .. Len(r.sent)}
                /\ lastOp' = [op |-> "ping", remote |-> remote, raised |-> r.raised,
                              sent |-> r.sent]
    /\ UNCHANGED <<table, now, transport, node, storage, netVars>>

\* the socket hands a datagram to Protocol.datagram_received
Receive(data) ==
    \E r \in {datagram_received(node[1], table, outstanding, futures, storage,
                                 data, now)} :
        /\ table' = r.table
        /\ outstanding' = r.outstanding
        /\ futures' = r.futures
        /\ storage' = r.storage
        /\ lastOp' = [op |-> "datagram_received", data |-> data,
                      raised |-> r.raised, sent |-> r.sent]
        /\ UNCHANGED <<now, transport, node, netVars>>

\* a frame arrives from the network
DatagramReceived(data) ==
    /\ transport = "open"
    /\ Receive(data)
    /\ UNCHANGED wire

\* the peers that answer the requests that reach them
Responsive == {PeerA}

\* what a peer answers to a request
answer(peer, request) ==
    IF request.kind = "ping" THEN create_pong(peer, request.nonce)
    ELSE IF request.kind = "store" THEN create_store_response(peer, request.nonce)
    ELSE find_node_response(peer, request.nonce, <<>>)

\* a request of the node reaches a responsive peer, and the peer's answer
\* arrives
PeerAnswers(d) ==
    /\ transport = "open"
    /\ d \in wire
    /\ \E peer \in Responsive :
          /\ d.dest = <<peer.addr, peer.port>>
          /\ Receive(SerializeToString(answer(peer, d.data.message)))
    /\ wire' = wire \ {d}

\* a datagram of the node is lost, or reaches a peer that does not answer
Lose(d) ==
    /\ d \in wire
    /\ wire' = wire \ {d}
    /\ lastOp' = [op |-> "lose"]
    /\ UNCHANGED <<table, now, transport, node, outstanding, futures, storage, netVars>>

\* the requests the node can have in flight
PingDatagrams ==
    {[dest |-> <<remote.addr, remote.port>>,
      data |-> SerializeToString(
                 create_ping(Node("localhost", LocalPort, OwnId), nonce))] :
        remote \in {PeerA, PeerC}, nonce \in Nonces}

Next ==
    \/ Listen(LocalPort)
    \/ Stop
    \/ \E remote \in {PeerA, PeerC, Node("localhost", LocalPort, OwnId)},
          nonce \in Nonces : Ping(remote, nonce)
    \/ \E data \in EnvFrames : DatagramReceived(data)
    \/ \E d \in PingDatagrams : PeerAnswers(d)
    \/ \E d \in PingDatagrams : Lose(d)

Spec == Init /\ [][Next]_vars

\* the caller awaits the request under asyncio.wait_for(..., timeout), and
\* the timeout passes before a response: wait_for cancels what it awaits,
\* which cancels the future of the request; send has no timeout of its own
\* and the in-flight map is not touched
WaitTimesOut(f) ==
    /\ f \in 1 .. Len(futures)
    /\ futures[f].state = "pending"
    /\ futures' = [futures EXCEPT ![f].state = "cancelled"]
    /\ lastOp' = [op |-> "wait_for", future |-> f, raised |-> "TimeoutError"]
    /\ UNCHANGED <<table, now, transport, node, outstanding, storage, wire, netVars>>

TimeoutNext ==
    \/ Next
    \/ \E f \in 1 .. MaxSends : WaitTimesOut(f)

\* the requesting node with callers that give up waiting
TimeoutSpec == Init /\ [][TimeoutNext]_vars

\* the event loop delivers what responsive peers answer
FairSpec == Spec /\ WF_vars(\E d \in PingDatagrams : PeerAnswers(d))

\* a node that serves the requests of its peers and sends none itself
ServerNext ==
    \/ Listen(LocalPort)
    \/ Stop
    \/ \E data \in ServerFrames : DatagramReceived(data)

ServerSpec == Init /\ [][ServerNext]_vars

\* the datagrams that arrive at the socket of a node that both sends and
\* serves requests: the responses of PeerA under every nonce, and a PING, a
\* STORE and a FIND_VALUE of PeerA
ExchangeFrames ==
    ResponseFrames(PeerA)
        \cup {SerializeToString(create_ping(PeerA, 1)),
              SerializeToString(create_find_value(PeerA, 1, 4))}
        \cup {SerializeToString(create_store(PeerA, 1, 4, v)) : v \in Values}

\* a node that sends requests and serves the requests of its peers
ExchangeNext ==
    \/ Listen(LocalPort)
    \/ \E remote \in {PeerA, PeerC}, nonce \in Nonces : Ping(remote, nonce)
    \/ \E data \in ExchangeFrames : DatagramReceived(data)

ExchangeSpec == Init /\ [][ExchangeNext]_vars

----------------------------------------------------------------------------
(* kademlia.py and the lookups of protocol.py: a network of Servers.  One  *)
(* host at a time runs a coroutine (bootstrap, store_value, find_value,     *)
(* node_lookup) on one Server; the datagrams it sends reach the Servers     *)
(* that listen, and their answers come back.  Code between two awaits runs  *)
(* as one step; every request draws a nonce no request has used.            *)
(*                                                                         *)
(* kademlia.py calls the Server through a signature this revision of       *)
(* protocol.py does not have (Server(nodeid, constants), listen(addr,      *)
(* port), ping(address, port, timeout=10)).  The model reads each call as  *)
(* the call of the Server method of that name on the same values: the      *)
(* Node's Server has the Node's id and the table capacity K, and ping      *)
(* goes to the Server that listens at (address, port).  What the methods   *)
(* do is taken from protocol.py as it stands, so ping has no timeout.      *)

\* alpha of Server._lookup
Alpha == 3

\* RoutingTable.first_occupied_bucket
first_occupied_bucket(tbl) ==
    LET occupied == {i \in BucketIndexes : Len(tbl.buckets[i]) > 0}
    IN  IF occupied = {}
        THEN [raised |-> "IndexError", index |-> IdBits]
        ELSE [raised |-> "none",
              index |-> CHOOSE i \in occupied : \A j \in occupied : i <= j]

\* a variant of parse_find_node_response that reads no neighbor
parse_find_node_response_empty(response) == <<>>

\* protocol.parse_find_node_response
parse_find_node_response(response) ==
    [j \in 1 .. Len(response.neighbors) |-> read_node(response.neighbors[j])]

\* Server.node of the Server with the given id, once it listens
ServerNode(nodeid) == Node("localhost", Port(nodeid), nodeid)

\* the locals of a coroutine that a host has just called
NewCo(op, self, key, value) ==
    [op |-> op, self |-> self, pc |-> "start", key |-> key, value |-> value,
     phase |-> "", index |-> 0, target |-> 0, looking_for_value |-> FALSE,
     to_query |-> <<>>, queried |-> {}, seen_nodes |-> <<>>, round |-> <<>>,
     known |-> {}, trace |-> <<>>, shortlist |-> <<>>,
     result |-> None, raised |-> "none"]

\* the coroutine returns
finish(M, result) == [M EXCEPT !.co.pc = "idle", !.co.result = result]

\* the coroutine raises
fail(M, raised) == [M EXCEPT !.co.pc = "idle", !.co.raised = raised]

\* an exception raised by a coroutine that gather started ends the caller
raised_out(M) == IF M.co.raised # "none" THEN [M EXCEPT !.co.pc = "idle"] ELSE M

RECURSIVE send_requests(_, _, _)
\* Server.ping, find_node, find_value, store up to their await, one after the
\* other as gather starts them: each builds its request and calls Server.send
send_requests(M, kind, nodes) ==
    IF nodes = <<>> THEN M
    ELSE LET h == M.co.self
             me == ServerNode(h)
             nonce == Len(M.futures) + 1
             message ==
                 IF kind = "findNode" THEN create_find_node(me, nonce, M.co.target)
                 ELSE IF kind = "findValue" THEN create_find_value(me, nonce, M.co.target)
                 ELSE IF kind = "store" THEN create_store(me, nonce, M.co.key, M.co.value)
                 ELSE create_ping(me, nonce)
             r == send(M.servers[h].transport, Some(me), M.servers[h].outstanding,
                       M.futures, message, Head(nodes))
         IN  send_requests(
                 [M EXCEPT !.servers[h].outstanding = r.outstanding,
                           !.futures = r.futures,
                           !.wire = @ \cup {r.sent[j] : j \in 1 .. Len(r.sent)},
                           !.sent = @ \o r.sent,
                           !.co.round = IF r.raised = "none"
                                        THEN Append(@, Len(r.futures)) ELSE @,
                           !.co.raised = IF @ = "none" THEN r.raised ELSE @],
                 kind, Tail(nodes))

\* the loop body of Server._lookup up to its await: the requests of one round
lookup_round(M) ==
    raised_out(send_requests(
        [M EXCEPT !.co.pc = "gather",
                  !.co.round = <<>>,
                  !.co.queried = @ \cup {M.co.to_query[j].nodeid :
                                            j \in 1 .. Len(M.co.to_query)}],
        IF M.co.looking_for_value THEN "findValue" ELSE "findNode",
        M.co.to_query))

RECURSIVE chain(_)
\* itertools.chain over a sequence of lists
chain(lists) == IF lists = <<>> THEN <<>> ELSE Head(lists) \o chain(Tail(lists))

\* a variant of not_equal_to that lets every node through
not_equal_to_nothing(nodes, nodeid) == nodes

RECURSIVE not_equal_to(_, _)
\* the generator (node for node in nodes if node.nodeid != nodeid)
not_equal_to(nodes, nodeid) ==
    IF nodes = <<>> THEN <<>>
    ELSE (IF Head(nodes).nodeid # nodeid THEN <<Head(nodes)>> ELSE <<>>)
         \o not_equal_to(Tail(nodes), nodeid)

\* a variant of not_in that lets the peers already queried through
not_in_nothing(nodes, queried) == nodes

RECURSIVE not_in(_, _)
\* the generator (node for node in nodes if node.nodeid not in queried)
not_in(nodes, queried) ==
    IF nodes = <<>> THEN <<>>
    ELSE (IF Head(nodes).nodeid \notin queried THEN <<Head(nodes)>> ELSE <<>>)
         \o not_in(Tail(nodes), queried)

\* the slice s[:n]
slice_to(s, n) == SubSeq(s, 1, IF n < Len(s) THEN n ELSE Len(s))

\* a variant of store_value that leaves out the nearest peer
store_coros_but_first(nodes) ==
    IF nodes = <<>> THEN <<>> ELSE Tail(nodes)

\* Node.store_value: the peers it creates a store coroutine for
store_coros(nodes) == nodes

RECURSIVE start_lookup(_, _, _, _)
RECURSIVE lookup_return(_, _, _)
\* Node._refresh(index) of the bucket in co.index; key is what
\* random_key_in_bucket draws
refresh(M, key) ==
    IF random_key_in_bucket(M.co.self, M.co.index) = {}
    THEN fail(M, "ValueError")
    ELSE start_lookup([M EXCEPT !.co.trace = Append(@, <<"refresh", M.co.index>>)],
                      key, FALSE, key)

\* what the caller of Server._lookup does with the list it returns:
\* node_lookup hands it on, value_lookup drops it, store_value sends the
\* STOREs, bootstrap goes on to the next bucket to refresh
lookup_return(M, result, key) ==
    IF M.co.op = "node_lookup" THEN finish(M, Some(result))
    ELSE IF M.co.op = "find_value" THEN finish(M, None)
    ELSE IF M.co.op = "store_value"
    THEN LET sent == raised_out(send_requests(
                         [M EXCEPT !.co.pc = "stores", !.co.round = <<>>,
                                   !.co.shortlist = result],
                         "store", store_coros(result)))
         IN  IF store_coros(result) = <<>> THEN finish(sent, None) ELSE sent
    ELSE LET first == first_occupied_bucket(M.servers[M.co.self].table)
             index == IF M.co.phase = "self" THEN first.index ELSE M.co.index + 1
         IN  IF M.co.phase = "self" /\ first.raised # "none"
             THEN fail(M, first.raised)
             ELSE IF index >= IdBits
             THEN finish(M, None)
             ELSE refresh([M EXCEPT !.co.phase = "refresh", !.co.index = index], key)

\* Server._lookup from its first line to its first await
start_lookup(M, target, looking_for_value, key) ==
    IF M.servers[M.co.self].transport # "open"
    THEN fail(M, "Exception")
    ELSE LET to_query == closest_to_me(M.servers[M.co.self].table, Some(Alpha))
             started ==
                 [M EXCEPT !.co.target = target,
                           !.co.looking_for_value = looking_for_value,
                           !.co.to_query = to_query,
                           !.co.queried = {},
                           !.co.seen_nodes = <<>>,
                           !.co.known = {to_query[j] : j \in 1 .. Len(to_query)},
                           !.co.trace = Append(@, <<"node_lookup", target>>)]
         IN  IF to_query = <<>>
             THEN lookup_return(started, <<>>, key)
             ELSE lookup_round(started)

\* a variant of lookup_fold that tells the routing table of the first
\* neighbor the responses name
lookup_fold_learning(M, key) ==
    LET h == M.co.self
        results == [j \in 1 .. Len(M.co.round) |->
                       parse_find_node_response(M.futures[M.co.round[j]].result[1])]
        new_nodes == not_equal_to(chain(results), h)
        seen_nodes == slice_to(sort_nodes(M.co.seen_nodes \o new_nodes, M.co.target),
                               M.servers[h].table.k)
        to_query == islice(not_in(seen_nodes, M.co.queried), Alpha)
        folded == [M EXCEPT !.co.seen_nodes = seen_nodes,
                            !.co.to_query = to_query,
                            !.co.known = @ \cup {new_nodes[j] : j \in 1 .. Len(new_nodes)},
                            !.servers[h].table =
                                IF new_nodes = <<>> THEN @
                                ELSE node_seen(@, new_nodes[1], 0).table]
    IN  IF to_query = <<>>
        THEN lookup_return(folded, seen_nodes, key)
        ELSE lookup_round(folded)

\* Server._lookup from the return of gather to the next await
lookup_fold(M, key) ==
    LET h == M.co.self
        results == [j \in 1 .. Len(M.co.round) |->
                       parse_find_node_response(M.futures[M.co.round[j]].result[1])]
        new_nodes == not_equal_to(chain(results), h)
        seen_nodes == slice_to(sort_nodes(M.co.seen_nodes \o new_nodes, M.co.target),
                               M.servers[h].table.k)
        to_query == islice(not_in(seen_nodes, M.co.queried), Alpha)
        folded == [M EXCEPT !.co.seen_nodes = seen_nodes,
                            !.co.to_query = to_query,
                            !.co.known = @ \cup {new_nodes[j] : j \in 1 .. Len(new_nodes)}]
    IN  IF to_query = <<>>
        THEN lookup_return(folded, seen_nodes, key)
        ELSE lookup_round(folded)

\* the calls hosts make before the run ends
MaxCalls == 2

\* four Servers with the ids of the lookup tests: 0b1000, 0b1001, 0b1010, 0b1011
NetA == HighBit

NetH1 == HighBit + 1

NetH2 == HighBit + 2

NetF == HighBit + 3

NetIds == {NetA, NetH1, NetH2, NetF}

\* who has been told of whom through table.node_seen before the run
NetEdges == {<<NetA, NetH1>>, <<NetH1, NetH2>>, <<NetH2, NetF>>}

\* the Servers that listen: all of them, or all but one of the peers
NetUps == {NetIds} \cup {NetIds \ {h} : h \in {NetH1, NetH2, NetF}}

\* the table of a Server that was told of the peers the edges give it
seeded_table(h, edges) ==
    IF \E e \in edges : e[1] = h
    THEN node_seen(RoutingTableInit(K, h),
                   ServerNode((CHOOSE e \in edges : e[1] = h)[2]), 0).table
    ELSE RoutingTableInit(K, h)

NetInit ==
    /\ table = RoutingTableInit(K, OwnId)
    /\ now = 0
    /\ transport = "none"
    /\ node = None
    /\ outstanding = <<>>
    /\ futures = <<>>
    /\ storage = <<>>
    /\ wire = {}
    /\ lastOp = [op |-> "init"]
    /\ \E edges \in SUBSET NetEdges, up \in NetUps :
          /\ servers = [h \in NetIds |->
                           [table |-> seeded_table(h, edges),
                            storage |-> <<>>,
                            outstanding |-> <<>>,
                            transport |-> IF h \in up THEN "open" ELSE "none"]]
          /\ script = [edges |-> edges, up |-> up, calls |-> <<>>]
    /\ co = [NewCo("none", NetA, 0, "") EXCEPT !.pc = "idle"]

\* the network before a step, as the operators above take it
Machine(c) == [servers |-> servers, futures |-> futures, wire |-> wire,
               co |-> c, sent |-> <<>>]

\* the network after a step
Becomes(M, op) ==
    /\ servers' = M.servers
    /\ futures' = M.futures
    /\ wire' = M.wire
    /\ co' = M.co
    /\ lastOp' = [op |-> op, sent |-> M.sent]
    /\ UNCHANGED <<table, now, transport, node, outstanding, storage>>

\* a host may call when no coroutine is running
MayCall == co.pc = "idle" /\ Len(script.calls) < MaxCalls

\* a host calls server.node_lookup(target)
CallNodeLookup(h, target) ==
    /\ MayCall
    /\ script' = [script EXCEPT !.calls = Append(@, <<"node_lookup", h, target>>)]
    /\ \E M \in {start_lookup(Machine(NewCo("node_lookup", h, target, "")),
                              target, FALSE, 0)} :
          Becomes(M, "call")

\* a host calls Node.store_value(key, value)
CallStoreValue(h, key, value) ==
    /\ MayCall
    /\ script' = [script EXCEPT !.calls = Append(@, <<"store_value", h, key>>)]
    /\ \E M \in {start_lookup(Machine(NewCo("store_value", h, key, value)),
                              key, FALSE, 0)} :
          Becomes(M, "call")

\* a host calls Node.find_value(key)
CallFindValue(h, key) ==
    /\ MayCall
    /\ script' = [script EXCEPT !.calls = Append(@, <<"find_value", h, key>>)]
    /\ \E M \in {start_lookup(Machine(NewCo("find_value", h, key, "")),
                              key, TRUE, 0)} :
          Becomes(M, "call")

\* a host calls Node.bootstrap(address, port) with the address of a peer:
\* Server.ping up to its await
CallBootstrap(h, peer) ==
    /\ MayCall
    /\ script' = [script EXCEPT !.calls = Append(@, <<"bootstrap", h, peer>>)]
    /\ \E M \in {raised_out(send_requests(
                    [Machine(NewCo("bootstrap", h, h, "")) EXCEPT
                        !.co.pc = "ping", !.co.phase = "ping",
                        !.co.trace = <<(<<"ping", peer>>)>>],
                    "ping", <<ServerNode(peer)>>))} :
          Becomes(M, "call")

\* the futures of the round that are done
Done(c) == {j \in 1 .. Len(c.round) : futures[c.round[j]].state = "done"}

\* the futures of the round that hold a FOUND_VALUE: find_value raises
\* ValueFound on them
Found(c) ==
    {j \in Done(c) : c.looking_for_value
                       /\ futures[c.round[j]].result[1].kind = "foundValue"}

\* the bucket bootstrap refreshes next, if the lookup it awaits returns
next_index(c) ==
    IF c.phase = "self"
    THEN first_occupied_bucket(servers[c.self].table).index
    ELSE c.index + 1

\* what random_key_in_bucket can draw in this step
Draws(c) ==
    IF c.op = "bootstrap" /\ c.pc = "gather" /\ next_index(c) \in BucketIndexes
       /\ random_key_in_bucket(c.self, next_index(c)) # {}
    THEN random_key_in_bucket(c.self, next_index(c))
    ELSE {0}

\* the event loop resumes the coroutine: the ping it awaited is answered
ResumePing ==
    /\ co.pc = "ping"
    /\ Done(co) = 1 .. Len(co.round)
    /\ \E M \in {start_lookup([Machine(co) EXCEPT !.co.phase = "self"],
                              co.self, FALSE, 0)} :
          Becomes(M, "resume")
    /\ UNCHANGED script

\* the event loop resumes the coroutine: gather returns the round's results
ResumeGather ==
    /\ co.pc = "gather"
    /\ Found(co) = {}
    /\ Done(co) = 1 .. Len(co.round)
    /\ \E key \in Draws(co) :
          \E M \in {lookup_fold(Machine(co), key)} : Becomes(M, "resume")
    /\ UNCHANGED script

\* a variant of value_lookup without its except clause
value_lookup_uncaught(M, value) == fail(M, "ValueFound")

\* value_lookup of the value a FOUND_VALUE carries: find_value raises
\* ValueFound, gather and _lookup pass it on, value_lookup catches it
value_lookup_found(M, value) == finish(M, Some(value))

\* the event loop resumes a find_value whose peer answered FOUND_VALUE
ResumeFound ==
    /\ co.pc = "gather"
    /\ \E j \in Found(co) :
          Becomes(value_lookup_found(Machine(co),
                                     futures[co.round[j]].result[1].value),
                  "resume")
    /\ UNCHANGED script

\* the event loop resumes store_value: every STORE is answered
ResumeStores ==
    /\ co.pc = "stores"
    /\ Done(co) = 1 .. Len(co.round)
    /\ Becomes(finish(Machine(co), None), "resume")
    /\ UNCHANGED script

\* a datagram reaches the Server that listens at its destination
Deliver(h, d) ==
    /\ d \in wire
    /\ d.dest = <<"localhost", Port(h)>>
    /\ servers[h].transport = "open"
    /\ \E r \in {datagram_received(ServerNode(h), servers[h].table,
                                   servers[h].outstanding, futures,
                                   servers[h].storage, d.data, now)} :
          /\ servers' = [servers EXCEPT ![h].table = r.table,
                                        ![h].outstanding = r.outstanding,
                                        ![h].storage = r.storage]
          /\ futures' = r.futures
          /\ wire' = (wire \ {d}) \cup {r.sent[j] : j \in 1 .. Len(r.sent)}
          /\ lastOp' = [op |-> "datagram_received", host |-> h, data |-> d.data,
                        raised |-> r.raised, sent |-> r.sent]
    /\ UNCHANGED <<table, now, transport, node, outstanding, storage, co, script>>

\* some datagram reaches the Server that listens at its destination
DeliverSome == \E h \in NetIds, d \in wire : Deliver(h, d)

\* the keys and the value of the store tests
NetKeys == {4}

NetNext ==
    \/ \E target \in {NetF, NetH2} : CallNodeLookup(NetA, target)
    \/ \E key \in NetKeys : CallStoreValue(NetA, key, "hello")
    \/ \E h \in {NetA, NetF}, key \in NetKeys : CallFindValue(h, key)
    \/ \E peer \in {NetH1, NetH2} : CallBootstrap(NetA, peer)
    \/ ResumePing
    \/ ResumeGather
    \/ ResumeFound
    \/ ResumeStores
    \/ DeliverSome

NetSpec == NetInit /\ [][NetNext]_vars

\* the guard of DeliverSome; a Deliver step takes its datagram off the wire,
\* so this is ENABLED <<DeliverSome>>_vars
DeliverEnabled ==
    \E h \in NetIds, d \in wire :
        d.dest = <<"localhost", Port(h)>> /\ servers[h].transport = "open"

\* the guard of ResumePing; the step leaves the ping, so this is
\* ENABLED <<ResumePing>>_vars
ResumePingEnabled == co.pc = "ping" /\ Done(co) = 1 .. Len(co.round)

\* the guard of ResumeGather; the step starts a round or ends the lookup,
\* so this is ENABLED <<ResumeGather>>_vars
ResumeGatherEnabled ==
    co.pc = "gather" /\ Found(co) = {} /\ Done(co) = 1 .. Len(co.round)

\* the event loop runs every coroutine that can go on and hands every
\* datagram that arrived to its Protocol: weak fairness of each resumption
\* and of DeliverSome. WF_vars(A) is []<>(~ ENABLED <<A>>_vars) \/ []<><<A>>_vars;
\* it is written out, with the guard for ENABLED, for the three actions
\* whose successor is long to compute.
NetFairSpec ==
    NetSpec /\ WF_vars(ResumeFound) /\ WF_vars(ResumeStores)
            /\ ([]<>(~ ResumePingEnabled) \/ []<><<ResumePing>>_vars)
            /\ ([]<>(~ ResumeGatherEnabled) \/ []<><<ResumeGather>>_vars)
            /\ ([]<>(~ DeliverEnabled) \/ []<><<DeliverSome>>_vars)

----------------------------------------------------------------------------
(* Lookups in a network where peers name the same neighbor: A may have been *)
(* told of H1 and H2, and H1 and H2 of F and of each other.  Every Server   *)
(* listens, so every peer that is queried answers.                          *)

\* who may have been told of whom through table.node_seen before the run
FanEdges == {<<NetA, NetH1>>, <<NetA, NetH2>>, <<NetH1, NetF>>,
             <<NetH2, NetF>>, <<NetH1, NetH2>>}

RECURSIVE told_table(_, _, _)
\* the table of a Server that was told, in this order, of those of the
\* peers that the edges give it
told_table(h, edges, peers) ==
    IF peers = <<>>
    THEN RoutingTableInit(K, h)
    ELSE LET before == told_table(h, edges, SubSeq(peers, 1, Len(peers) - 1))
             peer == peers[Len(peers)]
         IN  IF <<h, peer>> \in edges
             THEN node_seen(before, ServerNode(peer), 0).table
             ELSE before

FanInit ==
    /\ table = RoutingTableInit(K, OwnId)
    /\ now = 0
    /\ transport = "none"
    /\ node = None
    /\ outstanding = <<>>
    /\ futures = <<>>
    /\ storage = <<>>
    /\ wire = {}
    /\ lastOp = [op |-> "init"]
    /\ \E edges \in SUBSET FanEdges, value \in {"", "hello"} :
          /\ servers = [h \in NetIds |->
                           [table |-> told_table(h, edges, <<NetH1, NetH2, NetF>>),
                            storage |-> IF h = NetF /\ value # ""
                                        THEN [k \in NetKeys |-> value]
                                        ELSE <<>>,
                            outstanding |-> <<>>,
                            transport |-> "open"]]
          /\ script = [edges |-> edges, up |-> NetIds, calls |-> <<>>]
    /\ co = [NewCo("none", NetA, 0, "") EXCEPT !.pc = "idle"]

FanNext ==
    \/ \E target \in {NetF, NetH2} : CallNodeLookup(NetA, target)
    \/ \E key \in NetKeys : CallFindValue(NetA, key)
    \/ ResumeGather
    \/ ResumeFound
    \/ DeliverSome

FanSpec == FanInit /\ [][FanNext]_vars

\* the event loop resumes the lookup and hands over every datagram that
\* arrived, as in NetFairSpec
FanFairSpec ==
    FanSpec /\ WF_vars(ResumeFound)
            /\ ([]<>(~ ResumeGatherEnabled) \/ []<><<ResumeGather>>_vars)
            /\ ([]<>(~ DeliverEnabled) \/ []<><<DeliverSome>>_vars)

----------------------------------------------------------------------------
(* Node.find_value run twice from one state of a static network: A was told *)
(* of every peer, every Server listens, and peers hold a value under the    *)
(* key as test_value_lookup puts it there (third.storage[0b100] = b'hello').*)
(* When a run has returned, the host notes what it returned and the network *)
(* is put back into the state the run started from.                         *)

\* what a peer holds under the key before the runs: nothing, or a value
StoredValues == {"", "hello", "world"}

\* the Servers before a run; holds gives each peer's value under the key
repeat_servers(holds) ==
    [h \in NetIds |->
        [table |-> IF h = NetA
                   THEN node_seen(node_seen(node_seen(RoutingTableInit(K, NetA),
                                                      ServerNode(NetH1), 0).table,
                                            ServerNode(NetH2), 0).table,
                                  ServerNode(NetF), 0).table
                   ELSE RoutingTableInit(K, h),
         storage |-> IF h = NetA \/ holds[h] = ""
                     THEN <<>>
                     ELSE [k \in NetKeys |-> holds[h]],
         outstanding |-> <<>>,
         transport |-> "open"]]

RepeatInit ==
    /\ table = RoutingTableInit(K, OwnId)
    /\ now = 0
    /\ transport = "none"
    /\ node = None
    /\ outstanding = <<>>
    /\ futures = <<>>
    /\ storage = <<>>
    /\ wire = {}
    /\ lastOp = [op |-> "init"]
    /\ \E holds \in [NetIds \ {NetA} -> StoredValues] :
          /\ servers = repeat_servers(holds)
          /\ script = [edges |-> {}, up |-> NetIds, calls |-> <<>>,
                       holds |-> holds, results |-> <<>>]
    /\ co = [NewCo("none", NetA, 0, "") EXCEPT !.pc = "idle"]

\* the host has the result of the run (result = await node.find_value(key));
\* the network is the one of before the run again
Restart ==
    /\ co.op = "find_value"
    /\ co.pc = "idle"
    /\ Len(script.results) < Len(script.calls)
    /\ script' = [script EXCEPT
                     !.results = Append(@, [raised |-> co.raised,
                                            result |-> co.result])]
    /\ servers' = repeat_servers(script.holds)
    /\ futures' = <<>>
    /\ wire' = {}
    /\ co' = [NewCo("none", NetA, 0, "") EXCEPT !.pc = "idle"]
    /\ lastOp' = [op |-> "restart"]
    /\ UNCHANGED <<table, now, transport, node, outstanding, storage>>

RepeatNext ==
    \/ \E key \in NetKeys : co.op = "none" /\ CallFindValue(NetA, key)
    \/ ResumeGather
    \/ ResumeFound
    \/ DeliverSome
    \/ Restart

RepeatSpec == RepeatInit /\ [][RepeatNext]_vars

----------------------------------------------------------------------------
(* Properties of the routing table *)

\* the descriptors stored in the table, bucket after bucket
StoredNodes(tbl) ==
    UNION {{tbl.buckets[i][j].node : j \in 1 .. Len(tbl.buckets[i])} : i \in BucketIndexes}

\* the number of entries of the whole table
RECURSIVE TotalEntriesFrom(_, _)
TotalEntriesFrom(tbl, i) ==
    IF i >= IdBits THEN 0 ELSE Len(tbl.buckets[i]) + TotalEntriesFrom(tbl, i + 1)

TotalEntries(tbl) == TotalEntriesFrom(tbl, 0)

\* the places (bucket, position) where an id is stored
Places(tbl, nodeid) ==
    {<<i, j>> \in BucketIndexes \X (1 .. (K + 2)) :
        j <= Len(tbl.buckets[i]) /\ tbl.buckets[i][j].node.nodeid = nodeid}

\* the distances to target along a list of nodes never decrease
NonDecreasing(nodes, target) ==
    \A j \in 1 .. (Len(nodes) - 1) :
        node_distance(target, nodes[j].nodeid)
            <= node_distance(target, nodes[j + 1].nodeid)

\* C3: after any sequence of node_seen and evict_node calls, those that raise
\* NoRoomInBucket included, every bucket holds at most k entries.
C3_BucketHoldsAtMostK ==
    \A i \in BucketIndexes : Len(table.buckets[i]) <= table.k

\* C3 witness: a node_seen call has just raised NoRoomInBucket on a bucket
\* that holds k entries.
C3_Witness ==
    /\ lastOp.op = "node_seen"
    /\ lastOp.raised = "NoRoomInBucket"
    /\ \E i \in BucketIndexes : Len(table.buckets[i]) = table.k

\* C4: every stored id differs from the table's own id, is stored at exactly
\* one place of one bucket, and that bucket's index i is the position of the
\* highest set bit of (own id XOR id): 2^i <= distance < 2^(i+1), with i
\* inside the index range of the id space.
C4_StoredIdInItsBucket ==
    \A i \in BucketIndexes : \A j \in 1 .. Len(table.buckets[i]) :
        LET nodeid == table.buckets[i][j].node.nodeid
            distance == int_xor(table.nodeid, nodeid)
        IN  /\ nodeid # table.nodeid
            /\ Places(table, nodeid) = {<<i, j>>}
            /\ 2^i <= distance
            /\ distance < 2^(i + 1)
            /\ i >= 0
            /\ i <= IdBits - 1

\* C4 witness: three buckets are occupied, the last one among them, after an
\* evict_node call and a node_seen call with the table's own id.
C4_Witness ==
    /\ Cardinality({i \in BucketIndexes : table.buckets[i] # <<>>}) >= 3
    /\ table.buckets[IdBits - 1] # <<>>
    /\ lastOp.op = "node_seen"
    /\ lastOp.node.nodeid = table.nodeid
    /\ lastOp.raised = "AssertionError"

\* C5: node_seen(peer) for an id that is not in its bucket, when that bucket
\* holds k entries, raises NoRoomInBucket carrying the head entry of the
\* bucket and leaves the table as it was.
C5_NoRoomLeavesTable ==
    [][\A n \in TableNodes :
          ( /\ lastOp'.op = "node_seen"
            /\ lastOp'.node = n
            /\ n.nodeid # table.nodeid
            /\ n.nodeid \notin BucketKeys(table.buckets[bucket_index_for(table, n.nodeid)])
            /\ Len(table.buckets[bucket_index_for(table, n.nodeid)]) = table.k )
          => ( /\ lastOp'.raised = "NoRoomInBucket"
               /\ lastOp'.entry
                    = Some(Head(table.buckets[bucket_index_for(table, n.nodeid)]))
               /\ table' = table )]_vars

\* C5 witness: node_seen has raised NoRoomInBucket with the head of a full
\* bucket whose head and tail differ, and the new peer is not in the table.
C5_Witness ==
    /\ lastOp.op = "node_seen"
    /\ lastOp.raised = "NoRoomInBucket"
    /\ lastOp.node \notin StoredNodes(table)
    /\ \E i \in BucketIndexes :
          /\ Len(table.buckets[i]) = table.k
          /\ lastOp.entry = Some(table.buckets[i][1])
          /\ table.buckets[i][1] # table.buckets[i][table.k]

\* C6: closest(t, n) returns a list whose XOR distances to t never decrease
\* from the first element to the last.
C6_ClosestIsSorted ==
    lastOp.op = "closest" => NonDecreasing(lastOp.result, lastOp.target)

\* C7: closest(t, n) returns the entries with the smallest XOR distance to t:
\* no stored peer left out of the result is strictly closer to t than a peer
\* of the result.
C7_ClosestAreTheNearest ==
    lastOp.op = "closest" =>
        \A j \in 1 .. Len(lastOp.result) :
            \A out \in StoredNodes(table) :
                (\A l \in 1 .. Len(lastOp.result) : lastOp.result[l] # out)
                => node_distance(lastOp.target, out.nodeid)
                     >= node_distance(lastOp.target, lastOp.result[j].nodeid)

\* C8: closest(t, n) returns exactly min(n, number of entries of the table)
\* peers, all of them stored and none of them twice; with n omitted, n is k.
C8_ClosestLength ==
    lastOp.op = "closest" =>
        LET result == lastOp.result
            nn == IF lastOp.n = None THEN table.k ELSE lastOp.n[1]
            total == TotalEntries(table)
        IN  /\ Len(result) = IF nn < total THEN nn ELSE total
            /\ \A j \in 1 .. Len(result) : result[j] \in StoredNodes(table)
            /\ \A j, l \in 1 .. Len(result) : result[j] = result[l] => j = l

\* C8 witness: closest was called without n on a table of more than k
\* entries, for a target other than the own id, and returned k peers of two
\* different buckets.
C8_Witness ==
    /\ lastOp.op = "closest"
    /\ lastOp.n = None
    /\ lastOp.target # table.nodeid
    /\ TotalEntries(table) > table.k
    /\ Len(lastOp.result) = table.k
    /\ \E j, l \in 1 .. Len(lastOp.result) :
          bucket_index_for(table, lastOp.result[j].nodeid)
              # bucket_index_for(table, lastOp.result[l].nodeid)

----------------------------------------------------------------------------
(* Properties of the protocol *)

\* the step just taken delivered a frame that decoded to a message
Delivered(op) == op.op = "datagram_received" /\ ~ op.data.malformed

\* the request variants
Requests == {"ping", "store", "findNode", "findValue"}

\* the futures that are still pending
Pending(futs) == {f \in 1 .. Len(futs) : futs[f].state = "pending"}

\* C1: a pending request with nonce N is completed only by an inbound
\* response whose nonce is N, and then with that response; until then it
\* stays registered under N.  A response whose nonce is not in the in-flight
\* map completes nothing and leaves the map as it was; a response whose
\* nonce is in the map (from a sender other than the node itself) completes
\* the future registered under it and removes the entry.
C1_NonceMatching ==
    [][ /\ \A f \in Pending(futures) :
              /\ futures[f].request.nonce \in DOMAIN outstanding
              /\ outstanding[futures[f].request.nonce] = f
              /\ futures'[f].state # "pending" =>
                    /\ Delivered(lastOp')
                    /\ isresponse(lastOp'.data.message)
                    /\ lastOp'.data.message.nonce = futures[f].request.nonce
                    /\ futures'[f].state = "done"
                    /\ futures'[f].result = Some(lastOp'.data.message)
                    /\ futures[f].request.nonce \notin DOMAIN outstanding'
        /\ ( /\ Delivered(lastOp')
             /\ isresponse(lastOp'.data.message)
             /\ lastOp'.data.message.nonce \notin DOMAIN outstanding )
           => ( /\ outstanding' = outstanding
                /\ futures' = futures )
        /\ ( /\ Delivered(lastOp')
             /\ isresponse(lastOp'.data.message)
             /\ read_nodeid(lastOp'.data.message.sender.nodeid) # table.nodeid
             /\ lastOp'.data.message.nonce \in DOMAIN outstanding )
           => LET f == outstanding[lastOp'.data.message.nonce]
              IN  /\ futures'[f].state = "done"
                  /\ futures'[f].result = Some(lastOp'.data.message)
                  /\ DOMAIN outstanding'
                       = (DOMAIN outstanding) \ {lastOp'.data.message.nonce}
                  /\ \A g \in (1 .. Len(futures)) \ {f} : futures'[g] = futures[g]
      ]_vars

\* C1 witness: a PING is answered by a PONG with its nonce, from the peer it
\* was sent to, and the future holds that PONG; the in-flight map is empty.
C1_Witness ==
    /\ Delivered(lastOp)
    /\ lastOp.data.message.kind = "pong"
    /\ Len(futures) >= 1
    /\ futures[1].state = "done"
    /\ futures[1].result = Some(lastOp.data.message)
    /\ futures[1].request.nonce = lastOp.data.message.nonce
    /\ read_node(lastOp.data.message.sender) = futures[1].remote
    /\ DOMAIN outstanding = {}

\* C2: every request registered by send is eventually completed, by a
\* matching response or by its timeout, and its entry is then gone from the
\* in-flight map; also when the peer never answers.
C2_RequestEventuallyCompleted ==
    \A f \in 1 .. MaxSends :
        (Len(futures) >= f /\ futures[f].state = "pending")
            ~> ( /\ Len(futures) >= f
                 /\ futures[f].state # "pending"
                 /\ \A n \in DOMAIN outstanding : outstanding[n] # f )

\* the response the node has just sent, when it has sent exactly one
Response(op) == op.sent[1].data.message

\* C9: for every inbound request (PING, STORE, FIND_NODE, FIND_VALUE) from a
\* sender other than the node itself, the node sends exactly one datagram:
\* a response with the request's nonce and the local node as its sender, to
\* the (ip, port) of the request's sender field; PONG for a PING,
\* STORE_RESPONSE for a STORE, FIND_NODE_RESPONSE for a FIND_NODE, and one of
\* FIND_NODE_RESPONSE and FOUND_VALUE for a FIND_VALUE.
C9_OneResponsePerRequest ==
    ( /\ Delivered(lastOp)
      /\ lastOp.data.message.kind \in Requests
      /\ read_nodeid(lastOp.data.message.sender.nodeid) # table.nodeid )
    => LET request == lastOp.data.message
       IN  /\ lastOp.raised = "none"
           /\ Len(lastOp.sent) = 1
           /\ lastOp.sent[1].dest = <<request.sender.ip, request.sender.port>>
           /\ ~ lastOp.sent[1].data.malformed
           /\ Response(lastOp).nonce = request.nonce
           /\ Some(read_node(Response(lastOp).sender)) = node
           /\ request.kind = "ping" => Response(lastOp).kind = "pong"
           /\ request.kind = "store" => Response(lastOp).kind = "storeResponse"
           /\ request.kind = "findNode" => Response(lastOp).kind = "findNodeResponse"
           /\ request.kind = "findValue"
                 => Response(lastOp).kind \in {"findNodeResponse", "foundValue"}

\* C9 witness: a STORE of PeerB under the second nonce has been answered with
\* one STORE_RESPONSE sent to PeerB's port.
C9_Witness ==
    /\ Delivered(lastOp)
    /\ lastOp.data.message.kind = "store"
    /\ lastOp.data.message.nonce = 2
    /\ read_node(lastOp.data.message.sender) = PeerB
    /\ Len(lastOp.sent) = 1
    /\ Response(lastOp).kind = "storeResponse"
    /\ Response(lastOp).nonce = 2
    /\ lastOp.sent[1].dest = <<"localhost", PeerB.port>>

\* the step just taken handled a request of the given kind from a sender
\* other than the node itself
Handled(op, tbl, kind) ==
    /\ Delivered(op)
    /\ op.data.message.kind = kind
    /\ read_nodeid(op.data.message.sender.nodeid) # tbl.nodeid

\* C10: once the node has handled STORE(key, v), every later FIND_VALUE(key)
\* is answered with FOUND_VALUE(key, v') where v' is the value of the most
\* recent STORE of key.  Step by step: handling STORE(key, v) leaves v under
\* key; no step removes a key from the value store, and only a STORE of that
\* key changes its value; FIND_VALUE(key) for a stored key is answered with
\* FOUND_VALUE carrying the key and the stored value.
C10_FindValueAfterStore ==
    [][ /\ Handled(lastOp', table, "store") =>
              LET key == from_bytes(lastOp'.data.message.key)
              IN  /\ key \in DOMAIN storage'
                  /\ storage'[key] = lastOp'.data.message.value
        /\ \A key \in DOMAIN storage :
              /\ key \in DOMAIN storage'
              /\ storage'[key] # storage[key] =>
                    /\ Handled(lastOp', table, "store")
                    /\ from_bytes(lastOp'.data.message.key) = key
        /\ \A key \in DOMAIN storage :
              ( /\ Handled(lastOp', table, "findValue")
                /\ from_bytes(lastOp'.data.message.key) = key )
              => /\ Len(lastOp'.sent) = 1
                 /\ Response(lastOp').kind = "foundValue"
                 /\ Response(lastOp').key = lastOp'.data.message.key
                 /\ Response(lastOp').value = storage[key]
                 /\ Response(lastOp').nonce = lastOp'.data.message.nonce
                 /\ storage' = storage
      ]_vars

\* C10 witness: the value store holds "xyz" under the key 0b100 and the node
\* has just answered PeerA's FIND_VALUE for that key with FOUND_VALUE "xyz".
C10_Witness ==
    /\ Handled(lastOp, table, "findValue")
    /\ read_node(lastOp.data.message.sender) = PeerA
    /\ 4 \in DOMAIN storage
    /\ storage[4] = "xyz"
    /\ Len(lastOp.sent) = 1
    /\ Response(lastOp).kind = "foundValue"
    /\ Response(lastOp).key = write_nodeid(4)
    /\ Response(lastOp).value = "xyz"

C20_OwnIdFrameDroppedSilently ==
    [][ ( /\ Delivered(lastOp')
          /\ read_nodeid(lastOp'.data.message.sender.nodeid) = table.nodeid )
        => ( /\ lastOp'.raised = "none"
             /\ lastOp'.sent = <<>>
             /\ table' = table
             /\ outstanding' = outstanding
             /\ storage' = storage )
      ]_vars

----------------------------------------------------------------------------
(* Properties of the lookups and of the Node facade *)

\* the ids in the routing table of a Server of the network
KnownIds(h) == {n.nodeid : n \in StoredNodes(servers[h].table)}

\* the step just taken is the one in which a lookup of store_value returned
StoreValueSends ==
    /\ co'.op = "store_value"
    /\ lastOp'.op \in {"call", "resume"}
    /\ co'.pc \in {"stores", "idle"}
    /\ co.pc # "stores"
    /\ co'.raised = "none"

\* C13: store_value(key, v) sends one STORE(key, v) to every peer of the
\* shortlist its node lookup returned and to no other peer, and it never
\* writes into the caller's own value store: the value store of a Server
\* changes only in the step in which that Server receives a STORE.
C13_StoreValueSendsToShortlist ==
    [][ /\ StoreValueSends =>
              /\ co'.shortlist = co'.seen_nodes
              /\ Len(lastOp'.sent) = Len(co'.shortlist)
              /\ \A j \in 1 .. Len(co'.shortlist) :
                    /\ lastOp'.sent[j].dest
                         = <<co'.shortlist[j].addr, co'.shortlist[j].port>>
                    /\ lastOp'.sent[j].data.message.kind = "store"
                    /\ lastOp'.sent[j].data.message.key = write_nodeid(co'.key)
                    /\ lastOp'.sent[j].data.message.value = co'.value
        /\ \A d \in wire' \ wire :
              (~ d.data.malformed /\ d.data.message.kind = "store")
              => StoreValueSends
        /\ \A h \in DOMAIN servers :
              servers'[h].storage # servers[h].storage
              => /\ lastOp'.op = "datagram_received"
                 /\ lastOp'.host = h
                 /\ lastOp'.data.message.kind = "store"
      ]_vars

\* C13 witness: the lookup of store_value has returned two peers, a STORE
\* went to each of them, and one of them already holds the value while the
\* caller holds nothing.
C13_Witness ==
    /\ co.op = "store_value"
    /\ co.pc = "stores"
    /\ Len(co.shortlist) = 2
    /\ co.shortlist[1] # co.shortlist[2]
    /\ \E j \in 1 .. 2 :
          /\ co.key \in DOMAIN servers[co.shortlist[j].nodeid].storage
          /\ servers[co.shortlist[j].nodeid].storage[co.key] = co.value
    /\ servers[co.self].storage = <<>>

\* the values the peers of the last round answered FOUND_VALUE with
FoundValues(c) ==
    {futures[c.round[j]].result[1].value : j \in Found(c)}

\* C14: find_value(key) returns the value bytes when a peer it queried
\* answered FOUND_VALUE and None when the lookup ends without one; ValueFound
\* never reaches the caller (a Server that does not listen raises the
\* not-running Exception).
C14_FindValueReturnsValueOrNone ==
    (co.op = "find_value" /\ co.pc = "idle")
    => /\ co.raised # "ValueFound"
       /\ co.raised = "Exception" <=> servers[co.self].transport # "open"
       /\ co.raised = "none" =>
             IF FoundValues(co) # {}
             THEN \E v \in FoundValues(co) : co.result = Some(v)
             ELSE co.result = None

\* C14 witness: a find_value has returned "hello", which a peer it queried
\* answered with.
C14_Witness ==
    /\ co.op = "find_value"
    /\ co.pc = "idle"
    /\ co.raised = "none"
    /\ co.result = Some("hello")
    /\ "hello" \in FoundValues(co)

\* C15: when node_lookup(target) returns, it returns the (up to k) peers
\* closest to target among all peers the lookup knew of: the peers it took
\* from the local routing table at its start and every neighbor a queried
\* peer returned, the local node left out.
C15_LookupReturnsClosestKnown ==
    (co.op = "node_lookup" /\ co.pc = "idle" /\ co.raised = "none")
    => LET result == co.result[1]
           k == servers[co.self].table.k
           returned == {result[j] : j \in 1 .. Len(result)}
       IN  /\ returned \subseteq co.known
           /\ Len(result) = IF Cardinality(co.known) < k
                            THEN Cardinality(co.known) ELSE k
           /\ Cardinality(returned) = Len(result)
           /\ \A n \in co.known \ returned : \A r \in returned :
                 node_distance(co.target, n.nodeid)
                     >= node_distance(co.target, r.nodeid)

\* C16: a lookup terminates even when a peer it queried never answers: the
\* round gives up on that peer after its timeout.
C16_LookupTerminates ==
    (co.op \in {"node_lookup", "find_value"} /\ co.pc = "gather")
    ~> (co.pc = "idle")

\* C18: bootstrap off a peer that does not answer the PING returns: it has
\* started no lookup and no refresh, the routing table is still empty and
\* the Server still listens.
C18_BootstrapGivesUp ==
    (/\ co.op = "bootstrap"
     /\ co.pc = "ping"
     /\ script.calls[Len(script.calls)][3] \notin script.up)
    ~> (/\ co.op = "bootstrap"
        /\ co.pc = "idle"
        /\ co.trace = <<(<<"ping", script.calls[Len(script.calls)][3]>>)>>
        /\ StoredNodes(servers[co.self].table) = {}
        /\ servers[co.self].transport = "open")

\* the two-hop network of the lookup tests, every Server listening, in
\* which the first call is node_lookup(F) at A
TwoHopLookup ==
    /\ script.edges = NetEdges
    /\ script.up = NetIds
    /\ script.calls = <<(<<"node_lookup", NetA, NetF>>)>>

\* C17: in the chain A -> H1 -> H2 -> F, where each Server knows only the
\* next one and all of them answer, node_lookup(F) at A terminates and
\* leaves H2 and F in A's routing table.
C17_LookupFindsPeerThroughPeers ==
    TwoHopLookup
    ~> (/\ TwoHopLookup
        /\ co.pc = "idle"
        /\ co.raised = "none"
        /\ {NetH2, NetF} \subseteq KnownIds(NetA))

\* C17 witness: the lookup of the chain has returned and A knows H2 and F.
C17_Witness ==
    /\ TwoHopLookup
    /\ co.pc = "idle"
    /\ co.result = Some(<<ServerNode(NetF), ServerNode(NetH2)>>)
    /\ KnownIds(NetA) = {NetH1, NetH2, NetF}

\* the Servers that hold a value for the key
Holders(key) == {h \in NetIds : key \in DOMAIN servers[h].storage}

\* a Server whose routing table names a holder of the key, or names a peer
\* whose routing table names one
Reaches(h, key) ==
    \E c \in Holders(key) :
        \/ c \in KnownIds(h)
        \/ \E b \in KnownIds(h) : c \in KnownIds(b)

\* every Server listens, store_value(key, "hello") at A has completed, and
\* the find_value(key) called next runs at a Server that reaches a holder
FindAfterStore ==
    /\ script.up = NetIds
    /\ Len(script.calls) = 2
    /\ script.calls[1][1] = "store_value"
    /\ script.calls[2][1] = "find_value"
    /\ co.op = "find_value"
    /\ Reaches(co.self, co.key)

BootstrapPeer == script.calls[Len(script.calls)][3]

\* a bootstrap whose peer listens, and so answers the PING, has ended
BootstrapEnded ==
    /\ co.op = "bootstrap"
    /\ co.pc = "idle"
    /\ BootstrapPeer \in script.up

\* C19: a bootstrap off a peer that answers ends without raising, having
\* done in this order the PING, the node lookup of the own id and one
\* refresh lookup for each bucket index from first_occupied_bucket() up to
\* the last one; the routing table then holds the bootstrap peer and every
\* listening peer the bootstrap peer knows.
C19_BootstrapRefreshesEveryBucket ==
    BootstrapEnded
    => /\ co.raised = "none"
       /\ Len(co.trace) >= 2
       /\ co.trace[1] = <<"ping", BootstrapPeer>>
       /\ co.trace[2] = <<"node_lookup", co.self>>
       /\ \E first \in BucketIndexes :
             /\ Len(co.trace) = 2 + 2 * (IdBits - first)
             /\ \A i \in first .. IdBits - 1 :
                   /\ co.trace[3 + 2 * (i - first)] = <<"refresh", i>>
                   /\ co.trace[4 + 2 * (i - first)][1] = "node_lookup"
                   /\ co.trace[4 + 2 * (i - first)][2]
                          \in random_key_in_bucket(co.self, i)
       /\ BootstrapPeer \in KnownIds(co.self)
       /\ (KnownIds(BootstrapPeer) \cap script.up) \ {co.self}
              \subseteq KnownIds(co.self)

\* C21: when the sender of an inbound frame belongs in a bucket that is
\* full, nothing is raised out of datagram_received, the routing table is
\* as it was, and the frame is handled as any other: a request is answered
\* with one response carrying its nonce, sent to its sender, and a response
\* whose nonce is in the in-flight map completes the future registered
\* under it and removes the entry.
C21_NoRoomIsAbsorbed ==
    [][ ( /\ Delivered(lastOp')
          /\ read_nodeid(lastOp'.data.message.sender.nodeid) # table.nodeid
          /\ node_seen(table, read_node(lastOp'.data.message.sender), now).raised
                = "NoRoomInBucket" )
        => LET message == lastOp'.data.message
           IN  /\ lastOp'.raised = "none"
               /\ table' = table
               /\ message.kind \in {"ping", "store", "findNode", "findValue"}
                  => /\ Len(lastOp'.sent) = 1
                     /\ lastOp'.sent[1].dest = <<message.sender.ip, message.sender.port>>
                     /\ isresponse(lastOp'.sent[1].data.message)
                     /\ lastOp'.sent[1].data.message.nonce = message.nonce
               /\ (isresponse(message) /\ message.nonce \in DOMAIN outstanding)
                  => /\ futures'[outstanding[message.nonce]].state = "done"
                     /\ futures'[outstanding[message.nonce]].result = Some(message)
                     /\ message.nonce \notin DOMAIN outstanding'
      ]_vars

\* C21 witness: with PeerB and PeerC filling their bucket, a PONG of PeerA,
\* which belongs in that bucket, has completed the PING sent to PeerA, and
\* PeerA is not in the table.
C21_Witness ==
    /\ Delivered(lastOp)
    /\ lastOp.data.message.kind = "pong"
    /\ lastOp.data.message.sender = NodeProto(PeerA)
    /\ lastOp.raised = "none"
    /\ \E f \in 1 .. Len(futures) :
          futures[f].state = "done" /\ futures[f].result = Some(lastOp.data.message)
    /\ Len(table.buckets[bucket_index_for(table, PeerA.nodeid)]) = table.k
    /\ PeerA.nodeid \notin BucketKeys(table.buckets[bucket_index_for(table, PeerA.nodeid)])

\* C22: a send on a Server that does not listen (listen() has not been
\* called, or stop() has) or to the local node itself raises an exception,
\* registers nothing in the in-flight map, creates no pending future and
\* transmits no datagram.
C22_SendRefused ==
    [][ ( /\ lastOp'.op = "ping"
          /\ (transport # "open" \/ Some(lastOp'.remote) = node) )
        => /\ lastOp'.raised = "Exception"
           /\ lastOp'.sent = <<>>
           /\ outstanding' = outstanding
           /\ futures' = futures
           /\ wire' = wire
      ]_vars

\* C22 witness: the listening node was asked to ping itself and refused.
C22_Witness ==
    /\ lastOp.op = "ping"
    /\ transport = "open"
    /\ Some(lastOp.remote) = node
    /\ lastOp.raised = "Exception"
    /\ futures = <<>>

\* C23: evict_node(id) of a stored id removes the entry with that id and
\* nothing else: the other entries of its bucket stay in their order, the
\* other buckets are untouched, and a node_seen of any peer of that bucket
\* that is not stored now inserts it.  evict_node of an id that is not
\* stored raises and leaves the table as it was.
C23_EvictRemovesExactlyOne ==
    [][ lastOp'.op = "evict_node" =>
          LET id == lastOp'.nodeid
              stored == UNION {BucketKeys(table.buckets[b]) : b \in BucketIndexes}
          IN  IF id \in stored
              THEN LET i == bucket_index_for(table, id)
                       Others(e) == e.node.nodeid # id
                   IN  /\ lastOp'.raised = "none"
                       /\ table'.buckets[i] = SelectSeq(table.buckets[i], Others)
                       /\ Len(table'.buckets[i]) = Len(table.buckets[i]) - 1
                       /\ \A b \in BucketIndexes \ {i} :
                             table'.buckets[b] = table.buckets[b]
                       /\ \A n \in TableNodes :
                             ( /\ n.nodeid # table.nodeid
                               /\ bucket_index_for(table, n.nodeid) = i
                               /\ n.nodeid \notin BucketKeys(table'.buckets[i]) )
                             => LET seen == node_seen(table', n, now)
                                IN  /\ seen.raised = "none"
                                    /\ seen.table.buckets[i]
                                         = Append(table'.buckets[i], RoutingEntry(n, now))
              ELSE /\ lastOp'.raised \in {"KeyError", "AssertionError"}
                   /\ table' = table
      ]_vars

\* C23 witness: an entry of a full bucket was evicted and the bucket holds
\* the other one.
C23_Witness ==
    /\ lastOp.op = "evict_node"
    /\ lastOp.raised = "none"
    /\ \E i \in BucketIndexes :
          /\ bucket_index_for(table, lastOp.nodeid) = i
          /\ Len(table.buckets[i]) = table.k - 1
          /\ Len(table.buckets[i]) >= 1
          /\ lastOp.nodeid \notin BucketKeys(table.buckets[i])

\* a key random_key_in_bucket returns is own id XOR d with d
\* in 2^i .. 2^(i+1)-1, and falls in bucket i.
ReturnedKeyIsInBucket ==
    (lastOp.op = "random_key_in_bucket" /\ lastOp.raised = "none") =>
        /\ \E d \in 2^lastOp.bucket_index .. (2^(lastOp.bucket_index + 1) - 1) :
               lastOp.result = Some(int_xor(lastOp.myid, d))
        /\ bucket_index_for(table, lastOp.result[1]) = lastOp.bucket_index

\* C24: random_key_in_bucket(own id, i) always returns; the key it returns is
\* own id XOR d with d in the inclusive range 2^i .. 2^(i+1)-1, every d of
\* that range is a possible outcome, and the key falls in bucket i.
C24_RandomKeyCoversBucket ==
    lastOp.op = "random_key_in_bucket" =>
        /\ lastOp.raised = "none"
        /\ lastOp.draws = {int_xor(lastOp.myid, d) :
                              d \in 2^lastOp.bucket_index
                                      .. (2^(lastOp.bucket_index + 1) - 1)}
        /\ lastOp.result # None
        /\ bucket_index_for(table, lastOp.result[1]) = lastOp.bucket_index

\* two find_value runs from one state of a static network whose holders all
\* hold the same value return the same result
RepeatedFindValueAgreesOnOneValue ==
    (/\ Len(script.results) = 2
     /\ \A g, h \in NetIds \ {NetA} :
           script.holds[g] = "" \/ script.holds[h] = ""
               \/ script.holds[g] = script.holds[h])
        => script.results[1] = script.results[2]

\* C25: two find_value(key) runs started from the same state of a static
\* network (same routing tables, same value stores, same key) return the
\* same result, whatever the order in which the responses of a round arrive.
C25_FindValueIsDeterministic ==
    Len(script.results) = 2 => script.results[1] = script.results[2]

\* C26: after stop() has closed the socket, every request that is still
\* outstanding is completed (with a shutdown error), so that no future stays
\* pending and the in-flight map ends up empty.
C26_StopDrainsOutstanding ==
    (lastOp.op = "stop" /\ Pending(futures) # {})
    ~> (Pending(futures) = {} /\ outstanding = <<>>)

\* C27 as stated: a frame that decodes and does not carry the local id
\* causes one node_seen(sender), made before anything else is done with the
\* frame, also when it is a response with an unknown nonce; the reply to
\* FIND_NODE(key) is closest(key, k) on a table that includes the requester.
C27_SeenOnceAndRequesterIncluded ==
    [][ ( /\ Delivered(lastOp')
          /\ read_nodeid(lastOp'.data.message.sender.nodeid) # table.nodeid )
        => LET message == lastOp'.data.message
               remote == read_node(message.sender)
           IN  /\ table' = node_seen(table, remote, now).table
               /\ message.kind = "findNode"
                  => /\ remote \in StoredNodes(table')
                     /\ lastOp'.sent =
                          <<respond(message,
                                    find_node_response(
                                        node[1], message.nonce,
                                        closest(table', read_nodeid(message.key),
                                                Some(table.k))))>>
      ]_vars

\* C27, amended: a frame that decodes and does not carry the local id
\* causes one node_seen(sender), made before anything else is done with the
\* frame, also when it is a response with an unknown nonce; the reply to
\* FIND_NODE(key) is closest(key, k) on the table as that node_seen left it,
\* which includes the requester unless the requester's bucket was full.
C27_SeenOnceBeforeHandling ==
    [][ ( /\ Delivered(lastOp')
          /\ read_nodeid(lastOp'.data.message.sender.nodeid) # table.nodeid )
        => LET message == lastOp'.data.message
               remote == read_node(message.sender)
           IN  /\ table' = node_seen(table, remote, now).table
               /\ (isresponse(message) /\ message.nonce \notin DOMAIN outstanding)
                  => /\ outstanding' = outstanding
                     /\ futures' = futures
                     /\ lastOp'.sent = <<>>
               /\ message.kind = "findNode"
                  => /\ node_seen(table, remote, now).raised # "NoRoomInBucket"
                        => remote \in StoredNodes(table')
                     /\ lastOp'.sent =
                          <<respond(message,
                                    find_node_response(
                                        node[1], message.nonce,
                                        closest(table', read_nodeid(message.key),
                                                Some(table.k))))>>
      ]_vars

\* C27 witness: a FIND_NODE of a peer the table did not hold has been
\* answered; the peer is in the table and among the neighbors of the reply.
C27_Witness ==
    /\ Delivered(lastOp)
    /\ lastOp.data.message.kind = "findNode"
    /\ read_node(lastOp.data.message.sender) \in StoredNodes(table)
    /\ Len(lastOp.sent) = 1
    /\ \E j \in 1 .. Len(lastOp.sent[1].data.message.neighbors) :
          lastOp.sent[1].data.message.neighbors[j] = lastOp.data.message.sender

\* C28: a response whose nonce is in the in-flight map completes the future
\* registered under it and removes the entry in the same step; a future that
\* is done is never completed again; a response whose nonce is not (or no
\* longer) in the map is dropped: it completes nothing, sends nothing and
\* raises nothing; a send under a nonce that is still registered raises and
\* registers nothing, so that no two pending requests share a nonce.
C28_CompletedOnceAndNoncesDistinct ==
    [][ /\ \A f \in 1 .. Len(futures) :
              /\ futures[f].state = "done" => futures'[f] = futures[f]
              /\ (futures[f].state = "pending" /\ futures'[f].state = "done")
                 => /\ Delivered(lastOp')
                    /\ lastOp'.data.message.nonce \in DOMAIN outstanding
                    /\ outstanding[lastOp'.data.message.nonce] = f
                    /\ lastOp'.data.message.nonce \notin DOMAIN outstanding'
        /\ ( /\ Delivered(lastOp')
             /\ read_nodeid(lastOp'.data.message.sender.nodeid) # table.nodeid
             /\ isresponse(lastOp'.data.message) )
           => IF lastOp'.data.message.nonce \in DOMAIN outstanding
              THEN /\ futures'[outstanding[lastOp'.data.message.nonce]].state = "done"
                   /\ DOMAIN outstanding'
                        = (DOMAIN outstanding) \ {lastOp'.data.message.nonce}
              ELSE /\ futures' = futures
                   /\ outstanding' = outstanding
                   /\ lastOp'.sent = <<>>
                   /\ lastOp'.raised = "none"
        /\ ( /\ lastOp'.op = "ping"
             /\ \E f \in Pending(futures) :
                   /\ f \in {outstanding[n] : n \in DOMAIN outstanding}
                   /\ Len(futures') > Len(futures)
                   /\ futures'[Len(futures')].request.nonce = futures[f].request.nonce )
           => FALSE
        /\ \A n \in DOMAIN outstanding' :
              /\ outstanding'[n] \in Pending(futures')
              /\ futures'[outstanding'[n]].request.nonce = n
      ]_vars

\* C28 witness: of two requests in flight the one under nonce 1 has been
\* completed by a response, the other is still registered, and a later PONG
\* under nonce 1 has found no entry and completed nothing.
C28_Witness ==
    /\ Delivered(lastOp)
    /\ lastOp.data.message.kind = "pong"
    /\ lastOp.data.message.nonce = 1
    /\ DOMAIN outstanding = {2}
    /\ Len(futures) = 2
    /\ \E f \in 1 .. 2 :
          /\ futures[f].state = "done"
          /\ futures[f].request.nonce = 1
          /\ futures[f].result # Some(lastOp.data.message)
    /\ outstanding[2] \in Pending(futures)

\* C29: a response that arrives after the wait for its request has ended by
\* timeout is dropped: nothing is raised, no future changes, and the nonce
\* of the request was taken out of the in-flight map when the wait ended.
C29_LateResponseDropped ==
    [][ ( /\ Delivered(lastOp')
          /\ read_nodeid(lastOp'.data.message.sender.nodeid) # table.nodeid
          /\ isresponse(lastOp'.data.message)
          /\ \E f \in 1 .. Len(futures) :
                /\ futures[f].state = "cancelled"
                /\ futures[f].request.nonce = lastOp'.data.message.nonce )
        => /\ lastOp'.raised = "none"
           /\ futures' = futures
           /\ lastOp'.data.message.nonce \notin DOMAIN outstanding
      ]_vars

\* C30: node_seen of a peer whose id is already in its bucket returns, puts
\* that entry at the tail of the bucket with last_seen refreshed to the time
\* of the call, and changes nothing else: the other entries of the bucket
\* are as they were and in the same order, the bucket has the same size,
\* and every other bucket is as it was.
C30_BumpMovesToTail ==
    [][ ( /\ lastOp'.op = "node_seen"
          /\ lastOp'.node.nodeid # table.nodeid
          /\ lastOp'.node.nodeid
                \in BucketKeys(table.buckets[bucket_index_for(table,
                                                              lastOp'.node.nodeid)]) )
        => LET id == lastOp'.node.nodeid
               i == bucket_index_for(table, id)
               before == table.buckets[i]
               after == table'.buckets[i]
               Others(e) == e.node.nodeid # id
           IN  /\ lastOp'.raised = "none"
               /\ Len(after) = Len(before)
               /\ after[Len(after)].node = before[KeyPos(before, id)].node
               /\ after[Len(after)].last_seen = now
               /\ after[Len(after)].last_seen >= before[KeyPos(before, id)].last_seen
               /\ SelectSeq(after, Others) = SelectSeq(before, Others)
               /\ \A b \in BucketIndexes \ {i} : table'.buckets[b] = table.buckets[b]
               /\ table'.k = table.k
               /\ table'.nodeid = table.nodeid
      ]_vars

\* C30 witness: a peer stored earlier was seen again, from another port, at
\* a later time: it stands at the tail of its bucket behind another entry,
\* with the descriptor stored first and the latest last_seen of the bucket.
C30_Witness ==
    /\ lastOp.op = "node_seen"
    /\ lastOp.raised = "none"
    /\ lastOp.node.nodeid # table.nodeid
    /\ LET bucket == table.buckets[bucket_index_for(table, lastOp.node.nodeid)]
       IN  /\ Len(bucket) = 2
           /\ bucket[2].node.nodeid = lastOp.node.nodeid
           /\ bucket[2].node # lastOp.node
           /\ bucket[2].last_seen = now
           /\ bucket[1].last_seen < now
           /\ bucket[1].last_seen > 0

\* C31: when every queried peer answers, an iteration of the lookup loop
\* (gather returns and the loop body runs to the next await or to the end)
\* returns a value, or sends a round that adds a peer to the queried set, or
\* ends the lookup with every peer of the shortlist queried; the queried set
\* holds peers of the network only, so a lookup that has started a round
\* returns; and a lookup on an empty routing table returns at once, with
\* nothing sent.
C31_LookupProgresses ==
    /\ [][ /\ (co.pc = "gather" /\ co' # co)
              => \/ /\ co.looking_for_value
                    /\ co'.pc = "idle"
                    /\ co'.result # None
                 \/ /\ co'.pc = "gather"
                    /\ co.queried \subseteq co'.queried
                    /\ co'.queried # co.queried
                    /\ co'.queried \subseteq NetIds \ {co.self}
                 \/ /\ co'.pc = "idle"
                    /\ co'.queried = co.queried
                    /\ \A j \in 1 .. Len(co'.seen_nodes) :
                          co'.seen_nodes[j].nodeid \in co.queried
           /\ ( /\ lastOp'.op = "call"
                /\ StoredNodes(servers[co'.self].table) = {} )
              => /\ co'.pc = "idle"
                 /\ co'.raised = "none"
                 /\ lastOp'.sent = <<>>
                 /\ futures' = futures
         ]_vars
    /\ (co.pc = "gather") ~> (co.pc = "idle")

\* C31 witness: a node_lookup has returned after three rounds: every peer
\* of the network was queried, and every peer of the shortlist is among them.
C31_Witness ==
    /\ co.op = "node_lookup"
    /\ co.pc = "idle"
    /\ co.raised = "none"
    /\ co.queried = NetIds \ {NetA}
    /\ Len(futures) >= 3
    /\ co.seen_nodes # <<>>
    /\ \A j \in 1 .. Len(co.seen_nodes) : co.seen_nodes[j].nodeid \in co.queried

\* C32: after every round of a lookup the shortlist (seen_nodes) holds at
\* most k peers, in order of ascending XOR distance to the target, and the
\* local node is not among them.
C32_ShortlistBoundedSortedWithoutSelf ==
    co.op \in {"node_lookup", "find_value"}
    => /\ Len(co.seen_nodes) <= servers[co.self].table.k
       /\ \A i, j \in 1 .. Len(co.seen_nodes) :
             i < j => node_distance(co.seen_nodes[i].nodeid, co.target)
                        <= node_distance(co.seen_nodes[j].nodeid, co.target)
       /\ \A j \in 1 .. Len(co.seen_nodes) : co.seen_nodes[j].nodeid # co.self

\* C32 witness: after a round in which a peer named the local node and the
\* peers named three nodes in all, the shortlist holds k = 2 different
\* peers, the nearer one first.
C32_Witness ==
    /\ co.op = "node_lookup"
    /\ Len(co.seen_nodes) = 2
    /\ node_distance(co.seen_nodes[1].nodeid, co.target)
         < node_distance(co.seen_nodes[2].nodeid, co.target)
    /\ \E f \in 1 .. Len(futures) :
          /\ futures[f].state = "done"
          /\ \E j \in 1 .. Len(futures[f].result[1].neighbors) :
                futures[f].result[1].neighbors[j] = NodeProto(ServerNode(co.self))
    /\ Cardinality({n.nodeid : n \in co.known}) >= 3

\* C33: within one lookup no peer is sent more than one FIND_NODE or
\* FIND_VALUE, also when several queried peers name the same neighbor: the
\* shortlist and the to_query of a round never hold one peer id twice, and
\* the requests of a round go to different peers.
C33_NoPeerQueriedTwice ==
    co.op \in {"node_lookup", "find_value"}
    => /\ \A i, j \in 1 .. Len(co.seen_nodes) :
             i # j => co.seen_nodes[i].nodeid # co.seen_nodes[j].nodeid
       /\ \A i, j \in 1 .. Len(co.to_query) :
             i # j => co.to_query[i].nodeid # co.to_query[j].nodeid
       /\ \A i, j \in 1 .. Len(co.round) :
             i # j => futures[co.round[i]].remote.nodeid
                        # futures[co.round[j]].remote.nodeid

\* C34: a pending request is completed only by a response that comes from
\* the peer the request was sent to and whose variant answers the request:
\* PONG for PING, STORE_RESPONSE for STORE, FIND_NODE_RESPONSE for
\* FIND_NODE, FIND_NODE_RESPONSE or FOUND_VALUE for FIND_VALUE.
C34_CompletedByAddresseeAndVariant ==
    [][ \A f \in Pending(futures) :
           futures'[f].state = "done"
           => LET request == futures[f].request
                  response == futures'[f].result[1]
              IN  /\ read_node(response.sender) = futures[f].remote
                  /\ \/ request.kind = "ping" /\ response.kind = "pong"
                     \/ request.kind = "store" /\ response.kind = "storeResponse"
                     \/ request.kind = "findNode"
                           /\ response.kind = "findNodeResponse"
                     \/ request.kind = "findValue"
                           /\ response.kind \in {"findNodeResponse", "foundValue"}
      ]_vars

\* C35: a peer enters the routing table of a Server only as the sender of a
\* frame that the Server receives in that step; a peer that a
\* FIND_NODE_RESPONSE names as a neighbor does not enter the table by that.
C35_TableLearnsSendersOnly ==
    [][ \A h \in NetIds :
           \A n \in StoredNodes(servers'[h].table) \ StoredNodes(servers[h].table) :
               /\ lastOp'.op = "datagram_received"
               /\ lastOp'.host = h
               /\ ~ lastOp'.data.malformed
               /\ read_node(lastOp'.data.message.sender) = n
      ]_vars

\* C35 witness: the lookup at A has F in its shortlist, named by a peer in
\* a FIND_NODE_RESPONSE that A has received, and A's routing table does not
\* hold F.
C35_Witness ==
    /\ co.op = "node_lookup"
    /\ co.self = NetA
    /\ \E j \in 1 .. Len(co.seen_nodes) : co.seen_nodes[j] = ServerNode(NetF)
    /\ \E f \in 1 .. Len(futures) :
          /\ futures[f].state = "done"
          /\ futures[f].result[1].kind = "findNodeResponse"
          /\ \E j \in 1 .. Len(futures[f].result[1].neighbors) :
                futures[f].result[1].neighbors[j] = NodeProto(ServerNode(NetF))
    /\ ServerNode(NetF) \notin StoredNodes(servers[NetA].table)

\* C36: handling an inbound response sends no datagram and leaves the value
\* store as it was; handling an inbound request leaves the in-flight map
\* and the futures as they were, and what it sends is at most one datagram,
\* a response; so the peer that gets it sends nothing back and the exchange
\* ends there.
C36_ResponsesEndTheExchange ==
    [][ ( /\ Delivered(lastOp')
          /\ read_nodeid(lastOp'.data.message.sender.nodeid) # table.nodeid )
        => IF isresponse(lastOp'.data.message)
           THEN /\ lastOp'.sent = <<>>
                /\ wire' = wire
                /\ storage' = storage
           ELSE /\ outstanding' = outstanding
                /\ futures' = futures
                /\ Len(lastOp'.sent) <= 1
                /\ \A j \in 1 .. Len(lastOp'.sent) :
                      isresponse(lastOp'.sent[j].data.message)
      ]_vars

\* C36 witness: a node that holds a value and has two requests in flight
\* has received the PONG that completes one of them: it has sent nothing in
\* return, the value is still stored and the other request is still
\* registered.
C36_Witness ==
    /\ Delivered(lastOp)
    /\ lastOp.data.message.kind = "pong"
    /\ lastOp.sent = <<>>
    /\ \E f \in 1 .. Len(futures) :
          futures[f].state = "done" /\ futures[f].result = Some(lastOp.data.message)
    /\ DOMAIN storage # {}
    /\ DOMAIN outstanding # {}

====
